---- MODULE Spec2Model ----
(***************************************************************************)
(* Price resolver, retry client, item valuation, profit scan and the       *)
(* calculator component of albion-calc (frontend/src/utils/price_feed.ts,  *)
(* price_push.ts, profit_scan.ts, components/AlbionCraftingCalculator.tsx).*)
(*                                                                         *)
(* Fifteen specifications share the variables below:                       *)
(*   SpecPick  - pickPreferredOrMinOther and the per-chunk resolution as   *)
(*               pure functions over bounded row lists;                    *)
(*   SpecRetry - fetchWithRetry / postWithRetry, one request at a time;    *)
(*   SpecInval - invalidatePriceCache over every small cache;              *)
(*   Spec      - fetchPricesBulk with the module cache, the retry client   *)
(*               inlined, the caller's abort signal and invalidation;      *)
(*   SpecQuality - fetchPricesBulk called with opts.qualities on rows that *)
(*               carry a quality;                                          *)
(*   SpecValue - parseItemId, classifyMeta, computeItemValue and           *)
(*               computeUsageFee as pure functions over bounded inputs;    *)
(*   SpecScan  - scanProfit over short recipe lists;                       *)
(*   SpecChunk - the deduplication and chunking of the ids a bulk call     *)
(*               asks the network for;                                     *)
(*   SpecRace  - two fetchPricesBulk calls interleaved on the cache;       *)
(*   SpecControl - the component's controls, the cache invalidation their  *)
(*               change triggers, and the scan after it;                   *)
(*   SpecDerived - the rows handleScan computes and the derived rows;      *)
(*   SpecRetryFair - SpecRetry with every pending response and timer       *)
(*               eventually delivered;                                     *)
(*   SpecStale - two bulk calls of one id each interleaved with            *)
(*               invalidatePriceCache;                                     *)
(*   SpecArte  - loadArteMap called by overlapping scans;                  *)
(*   SpecHook  - useProfitScan: effect runs, cleanups and settling scans.  *)
(***************************************************************************)
EXTENDS Integers, Sequences, FiniteSets, TLC

\* ---------------------------------------------------------------- bounds
\* how many entries of CITY_ORDER appear in the rows given to the price pick
NumCities == 2
\* sell_price_min ranges over 0..MaxPrice (and "absent")
MaxPrice == 2
\* longest response body (rows) given to the price pick
MaxRows == 3
\* largest `tries` argument given to the retry client on its own
MaxTries == 4
\* longest itemIds argument of a bulk call; item ids are 1..MaxIds
MaxIds == 2
\* CHUNK_SIZE is 150 in price_feed.ts:220; it is scaled down with MaxIds so
\* that one bulk call spans several chunks
CHUNK_SIZE == 1

\* longest response body of a call made with opts.qualities
MaxQualRows == 2
\* longest recipes argument of scanProfit
MaxRecipes == 2
\* how many of the ids of one scan stay without a price
MaxUnresolved == 2
\* the ids, the longest itemIds list and the largest chunk size given to the
\* partition into chunks on its own
MaxPartIds == 3
MaxPartLen == 4
MaxPartChunk == 2

\* most words in a core given to classifyMeta
MaxCoreWords == 3
\* most scanProfit calls of one caller
MaxScans == 3
\* most effects of useProfitScan run, each starting a scan
MaxEffects == 4

\* ------------------------------------------------------------- constants
\* fetchMultiCity: fetchWithRetry(url, 4, signal)
TRIES == 4

CITY_ORDER ==
  << "Martlock", "Bridgewatch", "Lymhurst", "Fort Sterling",
     "Thetford", "Caerleon", "Brecilien" >>

SERVER_BASE == { "West" }

Cities == { CITY_ORDER[k] : k \in 1..NumCities }
Items == 1..MaxIds
PickItems == { 1, 2 }

\* bulk calls: the preferred cities asked for, and the cities and prices of
\* the rows the API answers with
CallCities == { CITY_ORDER[1] }
RespCities == { CITY_ORDER[1], CITY_ORDER[2] }
RespPrices == { 0, 1 }

\* cityUsed: string | null
NULL == "null"
\* an absent sell_price_min (undefined / null in the JSON row)
NoPrice == 0 - 1

PriceVals == {NoPrice} \cup (0..MaxPrice)

\* PriceRow { item_id, city, sell_price_min }
PriceRow(I) == [item_id : I, city : Cities, sell_price_min : PriceVals]

RECURSIVE SeqsUpTo(_, _)
SeqsUpTo(S, n) ==
  IF n = 0 THEN { <<>> }
  ELSE LET shorter == SeqsUpTo(S, n - 1)
       IN shorter \cup { Append(s, x) : s \in { t \in shorter : Len(t) = n - 1 }, x \in S }

Range(s) == { s[k] : k \in 1..Len(s) }

\* ------------------------------------------------------- pure functions
\* `x ?? 0` and `x || 0` on a price field
OrZero(v) == IF v = NoPrice THEN 0 ELSE v

\* the list as it is, duplicates kept
uniqueKeepsDuplicates(arr) == arr

\* const unique = (arr) => [...new Set(arr)]  (first occurrences, in order)
RECURSIVE unique(_)
unique(arr) ==
  IF arr = <<>> THEN <<>>
  ELSE LET init == unique(SubSeq(arr, 1, Len(arr) - 1))
           last == arr[Len(arr)]
       IN IF last \in Range(init) THEN init ELSE Append(init, last)

\* function chunk(arr, n): for (i = 0; i < arr.length; i += n) out.push(arr.slice(i, i + n))
chunk(arr, n) ==
  LET cnt == (Len(arr) + n - 1) \div n
      hi(k) == IF k * n < Len(arr) THEN k * n ELSE Len(arr)
  IN [ k \in 1..cnt |-> SubSeq(arr, (k - 1) * n + 1, hi(k)) ]

NoPick == [price |-> 0, cityUsed |-> NULL]

\* the loop with a zero price accepted as a minimum
RECURSIVE MinLoopNonNegative(_, _, _)
MinLoopNonNegative(arr, k, acc) ==
  IF k > Len(arr) THEN acc
  ELSE LET v == OrZero(arr[k].sell_price_min)
       IN IF v >= 0 /\ (~acc.isFinite \/ v < acc.min)
          THEN MinLoopNonNegative(arr, k + 1, [isFinite |-> TRUE, min |-> v, minCity |-> arr[k].city])
          ELSE MinLoopNonNegative(arr, k + 1, acc)

\* the loop without the `v < min` comparison
RECURSIVE MinLoopLastPositive(_, _, _)
MinLoopLastPositive(arr, k, acc) ==
  IF k > Len(arr) THEN acc
  ELSE LET v == OrZero(arr[k].sell_price_min)
       IN IF v > 0
          THEN MinLoopLastPositive(arr, k + 1, [isFinite |-> TRUE, min |-> v, minCity |-> arr[k].city])
          ELSE MinLoopLastPositive(arr, k + 1, acc)

\* the `for (const r of arr)` loop of pickPreferredOrMinOther: min starts at
\* Infinity (isFinite = FALSE) and is lowered by every strictly smaller positive price
RECURSIVE MinLoop(_, _, _)
MinLoop(arr, k, acc) ==
  IF k > Len(arr) THEN acc
  ELSE LET v == OrZero(arr[k].sell_price_min)
       IN IF v > 0 /\ (~acc.isFinite \/ v < acc.min)
          THEN MinLoop(arr, k + 1, [isFinite |-> TRUE, min |-> v, minCity |-> arr[k].city])
          ELSE MinLoop(arr, k + 1, acc)

\* arr.find((x) => x.city === preferCity)?.sell_price_min ?? 0
PreferPrice(arr, preferCity) ==
  IF \E k \in 1..Len(arr) : arr[k].city = preferCity
  THEN LET k == CHOOSE j \in 1..Len(arr) :
                  /\ arr[j].city = preferCity
                  /\ \A h \in 1..(j - 1) : arr[h].city # preferCity
       IN OrZero(arr[k].sell_price_min)
  ELSE 0

\* the loop body with the fallback city dropped
PickOneMinWithoutCity(arr, preferCity) ==
  LET prefer == PreferPrice(arr, preferCity)
      m == MinLoop(arr, 1, [isFinite |-> FALSE, min |-> 0, minCity |-> NULL])
  IN IF prefer > 0
     THEN [price |-> prefer, cityUsed |-> preferCity]
     ELSE IF m.isFinite THEN [price |-> m.min, cityUsed |-> NULL]
          ELSE NoPick

\* the body of the per-item loop of pickPreferredOrMinOther
PickOne(arr, preferCity) ==
  LET prefer == PreferPrice(arr, preferCity)
      m == MinLoop(arr, 1, [isFinite |-> FALSE, min |-> 0, minCity |-> NULL])
  IN IF prefer > 0
     THEN [price |-> prefer, cityUsed |-> preferCity]
     ELSE IF m.isFinite THEN [price |-> m.min, cityUsed |-> m.minCity]
          ELSE NoPick

\* function pickPreferredOrMinOther(rows, preferCity): PickedPriceMap
pickPreferredOrMinOther(rows, preferCity) ==
  LET byItem(item) == SelectSeq(rows, LAMBDA r : r.item_id = item)
  IN [ item \in { r.item_id : r \in Range(rows) } |-> PickOne(byItem(item), preferCity) ]

\* fetchPricesBulk, per chunk: pickedChunk[id] ?? { price: 0, cityUsed: null }
ResolveChunk(ids, rows, city) ==
  LET pickedChunk == pickPreferredOrMinOther(rows, city)
  IN [ id \in Range(ids) |->
         IF id \in DOMAIN pickedChunk THEN pickedChunk[id] ELSE NoPick ]

\* key: `${server}|${city}|${item_id}`
CacheKey(server, city, id) == << server, city, id >>

\* Map.set(key, value)
MapSet(m, k, v) == [ x \in DOMAIN m \cup {k} |-> IF x = k THEN v ELSE m[x] ]

\* the Map without the keys in gone
MapWithout(m, gone) == [ x \in DOMAIN m \ gone |-> m[x] ]

\* for (const k of Array.from(memCache.keys())) if (predicate(k)) memCache.delete(k)
\* (keys is the snapshot still to visit; predicate is the set of keys it accepts)
RECURSIVE DeleteLoop(_, _, _)
DeleteLoop(cache, keys, predicate) ==
  IF keys = {} THEN cache
  ELSE LET k == CHOOSE x \in keys : TRUE
       IN DeleteLoop(IF k \in predicate THEN MapWithout(cache, {k}) ELSE cache,
                     keys \ {k}, predicate)

\* an invalidation that ignores its predicate
invalidatePriceCacheClearAll(cache, hasPredicate, predicate) == << >>

\* export function invalidatePriceCache(predicate?): without a predicate
\* memCache.clear(), with one the delete loop
invalidatePriceCache(cache, hasPredicate, predicate) ==
  IF ~hasPredicate THEN << >>
  ELSE DeleteLoop(cache, DOMAIN cache, predicate)

\* fetchPricesBulk, lines 343-366: the ids that miss the cache, in chunks
MissChunks(cache, server, city, itemIds, n) ==
  LET uniqIds == unique(itemIds)
      miss == SelectSeq(uniqIds, LAMBDA id : CacheKey(server, city, id) \notin DOMAIN cache)
  IN chunk(miss, n)

\* a hit test on the price of the entry instead of the entry
CacheHitPositive(cache, key) == key \in DOMAIN cache /\ cache[key].price > 0

\* const cached = memCache.get(key); if (cached) ...   (an entry is an
\* object, so the test is true exactly when the key is present)
CacheHit(cache, key) == key \in DOMAIN cache

\* --------------------------------------------------------- retry client
\* what one fetch() settles with: a Response (status) or a thrown error (name)
Resp(status) == [kind |-> "response", status |-> status, name |-> "-"]
Err(name) == [kind |-> "error", status |-> 0, name |-> name]
NoErr == [kind |-> "none", status |-> 0, name |-> "-", at |-> 0]

RETRY_STATUS == { 429, 502, 503, 504 }
Statuses == { 200, 400, 404, 429, 500, 502, 503, 504 }

\* Response.ok
ResOk(o) == o.kind = "response" /\ o.status \in 200..299

\* a fetch whose signal is aborted rejects with an AbortError; without an
\* aborted signal it settles with a response or a transport error (TypeError)
Outcomes(aborted) ==
  IF aborted THEN { Err("AbortError") }
  ELSE { Resp(st) : st \in Statuses } \cup { Err("TypeError") }

\* the pass without the AbortError test of the catch block
fetchWithRetryPassNoAbortTest(o, at, lastErr) ==
  IF o.kind = "response"
  THEN IF ResOk(o) THEN [next |-> "return", lastErr |-> lastErr]
       ELSE IF o.status \in RETRY_STATUS THEN [next |-> "sleep", lastErr |-> lastErr]
       ELSE [next |-> "return", lastErr |-> lastErr]
  ELSE [next |-> "sleep",
        lastErr |-> [kind |-> "error", status |-> 0, name |-> o.name, at |-> at]]

\* fetchWithRetry, one pass of the loop body once fetch() has settled with o
\* (o is request number `at`): what the pass does next, and lastErr after it
fetchWithRetryPass(o, at, lastErr) ==
  IF o.kind = "response"
  THEN IF ResOk(o) THEN [next |-> "return", lastErr |-> lastErr]
       ELSE IF o.status \in RETRY_STATUS THEN [next |-> "sleep", lastErr |-> lastErr]
       ELSE [next |-> "return", lastErr |-> lastErr]
  ELSE LET e == [kind |-> "error", status |-> 0, name |-> o.name, at |-> at]
       IN IF o.name = "AbortError" THEN [next |-> "throw", lastErr |-> e]
          ELSE [next |-> "sleep", lastErr |-> e]

\* the pass retrying every non-2xx status
postWithRetryPassAnyStatus(o, at, lastErr) ==
  IF o.kind = "response"
  THEN IF ResOk(o) THEN [next |-> "return", lastErr |-> lastErr]
       ELSE [next |-> "sleep", lastErr |-> lastErr]
  ELSE [next |-> "sleep",
        lastErr |-> [kind |-> "error", status |-> 0, name |-> o.name, at |-> at]]

\* postWithRetry, the same pass: its catch block has no AbortError test
postWithRetryPass(o, at, lastErr) ==
  IF o.kind = "response"
  THEN IF ResOk(o) THEN [next |-> "return", lastErr |-> lastErr]
       ELSE IF o.status \in RETRY_STATUS THEN [next |-> "sleep", lastErr |-> lastErr]
       ELSE [next |-> "return", lastErr |-> lastErr]
  ELSE LET e == [kind |-> "error", status |-> 0, name |-> o.name, at |-> at]
       IN [next |-> "sleep", lastErr |-> e]

\* inside a bulk call one status of each class stands for the class
BulkOutcomes(aborted) ==
  IF aborted THEN { Err("AbortError") }
  ELSE { Resp(200), Resp(404), Resp(503), Err("TypeError") }

RetryPass(fn, o, at, lastErr) ==
  IF fn = "fetchWithRetry" THEN fetchWithRetryPass(o, at, lastErr)
  ELSE postWithRetryPass(o, at, lastErr)

\* the loop test letting one more attempt through
LoopTestOneMore(attempt, tries, lastErr) ==
  IF attempt <= tries THEN "fetch"
  ELSE IF lastErr # NoErr THEN "throw"
  ELSE "final"

\* the loop exit without `if (lastErr) throw lastErr`
LoopTestNoThrow(attempt, tries, lastErr) ==
  IF attempt < tries THEN "fetch" ELSE "final"

\* `while (attempt < tries)`, and after the loop `if (lastErr) throw lastErr;
\* return fetch(...)`: where control goes when the loop test is evaluated
LoopTest(attempt, tries, lastErr) ==
  IF attempt < tries THEN "fetch"
  ELSE IF lastErr # NoErr THEN "throw"
  ELSE "final"

\* ------------------------------------------------------- item valuation
\* JavaScript numbers are modelled as exact fractions [num, den] in lowest
\* terms with den > 0 (the code computes in IEEE doubles).
RECURSIVE Gcd(_, _)
Gcd(a, b) == IF b = 0 THEN a ELSE Gcd(b, a % b)

Abs(x) == IF x < 0 THEN 0 - x ELSE x

Frac(n, d) ==
  LET g == Gcd(Abs(n), d)
  IN [num |-> n \div g, den |-> d \div g]

FracMul(x, y) == Frac(x.num * y.num, x.den * y.den)

FracAdd(x, y) ==
  LET g == Gcd(x.den, y.den)
  IN Frac(x.num * (y.den \div g) + y.num * (x.den \div g), (x.den \div g) * y.den)

Num(n) == [num |-> n, den |-> 1]

FracLess(x, y) == x.num * y.den < y.num * x.den

\* export type ArteType
ArteTypes == { "Standard", "Rune", "Soul", "Relic", "Mist", "Avalonian", "Crystal" }

\* const ART_MULT: Record<ArteType, number>
ART_MULT ==
  [ a \in ArteTypes |->
      CASE a = "Standard" -> 0
        [] a = "Rune" -> 4
        [] a = "Soul" -> 12
        [] a = "Relic" -> 28
        [] a = "Mist" -> 28
        [] a = "Avalonian" -> 60
        [] a = "Crystal" -> 60 ]

\* const pow2 = (e) => Math.pow(2, e)
RECURSIVE pow2(_)
pow2(e) ==
  IF e = 0 THEN Num(1)
  ELSE IF e > 0 THEN FracMul(Num(2), pow2(e - 1))
  ELSE FracMul(Frac(1, 2), pow2(e + 1))

\* const shapeMult = (is) => (is ? 16/11 : 1)
shapeMult(is) == IF is THEN Frac(16, 11) ELSE Num(1)

\* the arte term scaled with tier + enchant like the base term
computeItemValueArteByEnchant(tier, enchant, numItems, arteType, isShapeshifter) ==
  LET base == FracMul(Num(16), pow2(tier + enchant - 4))
      arte == FracMul(Num(ART_MULT[arteType]), pow2(tier + enchant - 4))
  IN FracMul(FracMul(Num(numItems), FracAdd(base, arte)), shapeMult(isShapeshifter))

\* export function computeItemValue(tier, enchant, numItems, arteType, isShapeshifter)
computeItemValue(tier, enchant, numItems, arteType, isShapeshifter) ==
  LET base == FracMul(Num(16), pow2(tier + enchant - 4))
      arte == FracMul(Num(ART_MULT[arteType]), pow2(tier - 4))
  IN FracMul(FracMul(Num(numItems), FracAdd(base, arte)), shapeMult(isShapeshifter))

\* Math.round(x): the integer nearest to x, halves up
MathRound(x) == Num((2 * x.num + x.den) \div (2 * x.den))

\* Math.round of a fraction of either sign: floor(x + 1/2)
MathRoundSigned(x) ==
  LET n == 2 * x.num + x.den
      d == 2 * x.den
  IN Num(IF n >= 0 THEN n \div d ELSE 0 - ((d - 1 - n) \div d))

\* the fee rounded as the component rounds it
computeUsageFeeRounded(itemValue, stationFeePer100) ==
  MathRound(FracMul(FracMul(itemValue, Frac(1125, 10000)), FracMul(stationFeePer100, Frac(1, 100))))

\* export function computeUsageFee(itemValue, stationFeePer100):
\* itemValue * 0.1125 * (stationFeePer100 / 100)
computeUsageFee(itemValue, stationFeePer100) ==
  FracMul(FracMul(itemValue, Frac(1125, 10000)), FracMul(stationFeePer100, Frac(1, 100)))

\* ------------------------------------------------------------ parseItemId
\* A string is a sequence of one-character strings.
UpperLetters == { "T", "A", "H" }

TierDigits == { "4", "5", "6", "7", "8" }

EnchantDigits == { "0", "1", "2", "3", "4" }

Digits == TierDigits \cup EnchantDigits \cup { "9" }

\* String.prototype.toUpperCase, one character
UpperChar(c) == CASE c = "t" -> "T" [] c = "a" -> "A" [] OTHER -> c

toUpperCase(str) == [ i \in 1..Len(str) |-> UpperChar(str[i]) ]

\* +m[1], +m[4]
DigitValue(c) ==
  CASE c = "0" -> 0 [] c = "1" -> 1 [] c = "2" -> 2 [] c = "3" -> 3 [] c = "4" -> 4
    [] c = "5" -> 5 [] c = "6" -> 6 [] c = "7" -> 7 [] c = "8" -> 8 [] c = "9" -> 9

\* String(n) of a one-digit number
DigitChar(n) == CHOOSE c \in Digits : DigitValue(c) = n

\* the character class [A-Z0-9]
IsAlnum(c) == c \in UpperLetters \cup Digits

\* the regular expression's dot: every character but a line terminator
IsDot(c) == c # "\n"

\* return null
ParseNull == [matched |-> FALSE, tier |-> 0, slot |-> <<>>, core |-> <<>>, enchant |-> 0]

\* (.+?)(?:@([0-4]))?$ on the text after the slot's underscore: the lazy
\* core takes the shortest prefix after which the optional suffix and the end
\* of the string match, so a trailing @0..@4 is tried before the whole text.
MatchCoreEnchant(r) ==
  LET n == Len(r)
      withEnchant == /\ n >= 3
                     /\ r[n - 1] = "@"
                     /\ r[n] \in EnchantDigits
                     /\ \A i \in 1..(n - 2) : IsDot(r[i])
      whole == n >= 1 /\ \A i \in 1..n : IsDot(r[i])
  IN IF withEnchant
       THEN [matched |-> TRUE, core |-> SubSeq(r, 1, n - 2), enchant |-> DigitValue(r[n])]
       ELSE IF whole
         THEN [matched |-> TRUE, core |-> r, enchant |-> 0]
         ELSE [matched |-> FALSE, core |-> <<>>, enchant |-> 0]

\* export function parseItemId(itemId):
\* /^T([4-8])_([A-Z0-9]+)_(.+?)(?:@([0-4]))?$/ on itemId.toUpperCase()
parseItemId(itemId) ==
  LET s == toUpperCase(itemId)
      n == Len(s)
      \* ([A-Z0-9]+)_ : a non-empty run of [A-Z0-9] from position 4 and the
      \* underscore that follows it
      slotEnds == { j \in 5..n : s[j] = "_" /\ \A i \in 4..(j - 1) : IsAlnum(s[i]) }
      ok == { j \in slotEnds : MatchCoreEnchant(SubSeq(s, j + 1, n)).matched }
  IN IF n >= 3 /\ s[1] = "T" /\ s[2] \in TierDigits /\ s[3] = "_" /\ ok # {}
       THEN LET j == CHOOSE x \in ok : \A y \in ok : y <= x
                m == MatchCoreEnchant(SubSeq(s, j + 1, n))
            IN [matched |-> TRUE, tier |-> DigitValue(s[2]), slot |-> SubSeq(s, 4, j - 1),
                core |-> m.core, enchant |-> m.enchant]
       ELSE ParseNull

\* ------------------------------------------------------------ classifyMeta
\* A core is the sequence of its words, the parts between underscores.
\* Which of the literals the regular expressions look for a word contains:
WordHas(w, lit) ==
  CASE lit = "SHAPESHIFTER" -> w = "SHAPESHIFTER"
    [] lit = "BAG" -> w = "BAG"
    [] lit = "SATCHEL" -> w = "SATCHEL"
    [] lit = "INSIGHT" -> w = "INSIGHT"
    [] lit = "BOW" -> w \in { "BOW", "CROSSBOW" }

CoreHas(core, lit) == \E i \in 1..Len(core) : WordHas(core[i], lit)

\* String.prototype.toUpperCase on the words and slots used here
UpperWord(w) ==
  CASE w = "bag" -> "BAG" [] w = "Satchel" -> "SATCHEL" [] w = "insight" -> "INSIGHT"
    [] w = "cape" -> "CAPE" [] w = "Shapeshifter" -> "SHAPESHIFTER"
    [] w = "crossbow" -> "CROSSBOW" [] w = "off" -> "OFF" [] w = "2h" -> "2H"
    [] w = "Main" -> "MAIN" [] OTHER -> w

\* classifyMeta with the general-cape override moved behind the city-cape one
classifyMetaGeneralCapeLast(core, slot) ==
  LET up == [ i \in 1..Len(core) |-> UpperWord(core[i]) ]
      s == UpperWord(slot)
      isShapeshifter == CoreHas(up, "SHAPESHIFTER")
      isBag == CoreHas(up, "BAG") \/ CoreHas(up, "SATCHEL")
      isInsightBag == CoreHas(up, "INSIGHT")
      isCapeGeneral == Len(up) >= 1 /\ up[Len(up)] = "CAPE"
      isCapeCity == \E i \in 2..(Len(up) - 1) : up[i] = "CAPE"
      isBow == CoreHas(up, "BOW")
      n0 == CASE s = "OFF" -> 8 [] s = "2H" -> 32 [] OTHER -> 24
      h0 == CASE s = "OFF" -> "OFF" [] s = "2H" -> "2H" [] s = "MAIN" -> "1H"
              [] OTHER -> "OTHER"
      n1 == IF isBag THEN 16 ELSE n0
      n2 == IF isCapeCity THEN 0 ELSE n1
      n3 == IF isCapeGeneral THEN 8 ELSE n2
      big == isShapeshifter \/ isBow
  IN [handed |-> IF big THEN "2H" ELSE h0,
      numItems |-> IF big THEN 32 ELSE n3,
      isShapeshifter |-> isShapeshifter, isBag |-> isBag,
      isCapeGeneral |-> isCapeGeneral, isCapeCity |-> isCapeCity,
      requiresTome |-> isInsightBag]

\* export function classifyMeta(core, slot)
classifyMeta(core, slot) ==
  LET up == [ i \in 1..Len(core) |-> UpperWord(core[i]) ]
      s == UpperWord(slot)
      isShapeshifter == CoreHas(up, "SHAPESHIFTER")
      isBag == CoreHas(up, "BAG") \/ CoreHas(up, "SATCHEL")
      isInsightBag == CoreHas(up, "INSIGHT")
      \* /(^|_)CAPE$/ and /_CAPE_/
      isCapeGeneral == Len(up) >= 1 /\ up[Len(up)] = "CAPE"
      isCapeCity == \E i \in 2..(Len(up) - 1) : up[i] = "CAPE"
      isBow == CoreHas(up, "BOW")
      n0 == CASE s = "OFF" -> 8 [] s = "2H" -> 32 [] OTHER -> 24
      h0 == CASE s = "OFF" -> "OFF" [] s = "2H" -> "2H" [] s = "MAIN" -> "1H"
              [] OTHER -> "OTHER"
      n1 == IF isBag THEN 16 ELSE n0
      n2 == IF isCapeGeneral THEN 8 ELSE n1
      n3 == IF isCapeCity THEN 0 ELSE n2
      big == isShapeshifter \/ isBow
  IN [handed |-> IF big THEN "2H" ELSE h0,
      numItems |-> IF big THEN 32 ELSE n3,
      isShapeshifter |-> isShapeshifter, isBag |-> isBag,
      isCapeGeneral |-> isCapeGeneral, isCapeCity |-> isCapeCity,
      requiresTome |-> isInsightBag]

\* ------------------------------------------------------------ profit scan
\* Infinity, -Infinity and NaN join the fractions with denominator 0.
Infinity == [num |-> 1, den |-> 0]

NaN == [num |-> 0, den |-> 0]

IsNaN(x) == x.num = 0 /\ x.den = 0

Sign(x) == IF x.num > 0 THEN 1 ELSE IF x.num < 0 THEN 0 - 1 ELSE 0

NumNeg(x) == [num |-> 0 - x.num, den |-> x.den]

NumAdd(x, y) ==
  IF IsNaN(x) \/ IsNaN(y) THEN NaN
  ELSE IF x.den = 0 /\ y.den = 0 THEN (IF x.num = y.num THEN x ELSE NaN)
  ELSE IF x.den = 0 THEN x
  ELSE IF y.den = 0 THEN y
  ELSE FracAdd(x, y)

NumSub(x, y) == NumAdd(x, NumNeg(y))

NumMul(x, y) ==
  IF IsNaN(x) \/ IsNaN(y) THEN NaN
  ELSE IF x.den = 0 \/ y.den = 0
    THEN (IF Sign(x) * Sign(y) = 0 THEN NaN ELSE [num |-> Sign(x) * Sign(y), den |-> 0])
  ELSE FracMul(x, y)

\* x / y for a finite y > 0
NumDiv(x, y) == NumMul(x, [num |-> y.den, den |-> y.num])

\* x <= y
NumLe(x, y) ==
  IF IsNaN(x) \/ IsNaN(y) THEN FALSE
  ELSE IF x.den = 0 /\ y.den = 0 THEN x.num <= y.num
  ELSE IF x.den = 0 THEN x.num < 0
  ELSE IF y.den = 0 THEN y.num > 0
  ELSE x.num * y.den <= y.num * x.den

\* Math.max(0, x)
MathMax0(x) == IF IsNaN(x) THEN NaN ELSE IF NumLe(x, Num(0)) THEN Num(0) ELSE x

\* an item id: the template of its string and the parts that fill it
Id(k, tier, slot, core) == [k |-> k, tier |-> tier, slot |-> slot, core |-> core]

\* const CRYSTALIZED_FOR
CRYSTALIZED_FOR ==
  [ a \in { "Rune", "Soul", "Relic", "Avalonian" } |->
      CASE a = "Rune" -> Id("CRYSTALLIZED_SPIRIT", 0, "-", <<>>)
        [] a = "Soul" -> Id("CRYSTALLIZED_DREAD", 0, "-", <<>>)
        [] a = "Relic" -> Id("CRYSTALLIZED_MAGIC", 0, "-", <<>>)
        [] a = "Avalonian" -> Id("CRYSTALLIZED_DIVINITY", 0, "-", <<>>) ]

\* function arteTypeOf(core, arteMap): arteMap[core.toUpperCase()] ?? "Standard"
arteTypeOf(core, arteMap) == IF core \in DOMAIN arteMap THEN arteMap[core] ELSE "Standard"

\* prices[id] ?? dflt, on what fetchPricesBulk resolved to: the PriceMap of
\* its first declaration, or the { prices, picked } object of its second,
\* which has no property named by an item id
PriceOr(res, id, dflt) ==
  IF res.shape = "PriceMap" /\ id \in DOMAIN res.map THEN res.map[id] ELSE dflt

\* function pickArtefactOrCrystallized(arteType, arteItemId, prices)
pickArtefactOrCrystallized(arteType, arteItemId, prices) ==
  LET hasSub == arteType \in DOMAIN CRYSTALIZED_FOR
      artePrice == PriceOr(prices, arteItemId, Infinity)
      subPrice == IF hasSub THEN PriceOr(prices, CRYSTALIZED_FOR[arteType], Infinity)
                  ELSE Infinity
  IN IF NumLe(artePrice, subPrice) THEN artePrice ELSE subPrice

\* .filter(m => m.kind === "A" || m.kind === "B").reduce(...)
RECURSIVE abCostOf(_, _, _)
abCostOf(materials, prices, i) ==
  IF i > Len(materials) THEN Num(0)
  ELSE LET m == materials[i]
           rest == abCostOf(materials, prices, i + 1)
       IN IF m.kind \in { "A", "B" }
            THEN NumAdd(NumMul(PriceOr(prices, m.itemId, Num(0)), Num(m.quantity)), rest)
            ELSE rest

\* the row computed with the usage fee left out of the total cost
ProfitRowOfFeeForgotten(r, cfg, arteMap, prices) ==
  LET meta == classifyMeta(r.core, r.slot)
      arteType == arteTypeOf(r.core, arteMap)
      itemValue == computeItemValue(r.tier, r.enchant, meta.numItems, arteType, meta.isShapeshifter)
      usageFee == computeUsageFee(itemValue, cfg.stationFeePer100)
      productPrice == PriceOr(prices, r.itemId, Num(0))
      abCost == abCostOf(r.materials, prices, 1)
      arteItemId == Id("ARTEFACT", r.tier, r.slot, r.core)
      arteCost == pickArtefactOrCrystallized(arteType, arteItemId, prices)
      tomeCost == IF meta.requiresTome THEN cfg.tomePrice ELSE Num(0)
      effectiveAB == NumMul(abCost, NumSub(Num(1), NumMul(cfg.returnRatePct, Frac(1, 100))))
      materialCost == NumAdd(NumAdd(abCost, arteCost), tomeCost)
      effectiveMaterialCost == NumAdd(NumAdd(effectiveAB, arteCost), tomeCost)
      saleTax == NumMul(productPrice, NumMul(cfg.saleTaxPct, Frac(1, 100)))
      listingFee == NumMul(productPrice, NumMul(cfg.listingPct, Frac(1, 100)))
      netRevenue == MathMax0(NumSub(NumSub(productPrice, saleTax), listingFee))
      totalCost == effectiveMaterialCost
      profit == NumSub(netRevenue, totalCost)
      profitMargin == IF productPrice.num > 0
                        THEN NumMul(NumDiv(profit, productPrice), Num(100))
                        ELSE Num(0)
  IN [itemId |-> r.itemId, profit |-> profit, profitMargin |-> profitMargin,
      productPrice |-> productPrice, usageFee |-> usageFee, materialCost |-> materialCost,
      effectiveMaterialCost |-> effectiveMaterialCost, arteType |-> arteType]

\* the body of the loop of scanProfit for one recipe that is not skipped
ProfitRowOf(r, cfg, arteMap, prices) ==
  LET meta == classifyMeta(r.core, r.slot)
      arteType == arteTypeOf(r.core, arteMap)
      itemValue == computeItemValue(r.tier, r.enchant, meta.numItems, arteType, meta.isShapeshifter)
      usageFee == computeUsageFee(itemValue, cfg.stationFeePer100)
      productPrice == PriceOr(prices, r.itemId, Num(0))
      abCost == abCostOf(r.materials, prices, 1)
      arteItemId == Id("ARTEFACT", r.tier, r.slot, r.core)
      arteCost == pickArtefactOrCrystallized(arteType, arteItemId, prices)
      tomeCost == IF meta.requiresTome THEN cfg.tomePrice ELSE Num(0)
      effectiveAB == NumMul(abCost, NumSub(Num(1), NumMul(cfg.returnRatePct, Frac(1, 100))))
      materialCost == NumAdd(NumAdd(abCost, arteCost), tomeCost)
      effectiveMaterialCost == NumAdd(NumAdd(effectiveAB, arteCost), tomeCost)
      saleTax == NumMul(productPrice, NumMul(cfg.saleTaxPct, Frac(1, 100)))
      listingFee == NumMul(productPrice, NumMul(cfg.listingPct, Frac(1, 100)))
      netRevenue == MathMax0(NumSub(NumSub(productPrice, saleTax), listingFee))
      totalCost == NumAdd(effectiveMaterialCost, usageFee)
      profit == NumSub(netRevenue, totalCost)
      profitMargin == IF productPrice.num > 0
                        THEN NumMul(NumDiv(profit, productPrice), Num(100))
                        ELSE Num(0)
  IN [itemId |-> r.itemId, profit |-> profit, profitMargin |-> profitMargin,
      productPrice |-> productPrice, usageFee |-> usageFee, materialCost |-> materialCost,
      effectiveMaterialCost |-> effectiveMaterialCost, arteType |-> arteType]

\* the loop without the `continue`: a row for every recipe
RECURSIVE ScanLoopKeepsCapes(_, _, _, _, _)
ScanLoopKeepsCapes(recipes, cfg, arteMap, prices, i) ==
  IF i > Len(recipes) THEN <<>>
  ELSE << ProfitRowOf(recipes[i], cfg, arteMap, prices) >>
         \o ScanLoopKeepsCapes(recipes, cfg, arteMap, prices, i + 1)

\* for (const r of recipes) { if (meta.isCapeCity) continue; ... out.push(...) }
RECURSIVE ScanLoop(_, _, _, _, _)
ScanLoop(recipes, cfg, arteMap, prices, i) ==
  IF i > Len(recipes) THEN <<>>
  ELSE LET r == recipes[i]
           rest == ScanLoop(recipes, cfg, arteMap, prices, i + 1)
       IN IF classifyMeta(r.core, r.slot).isCapeCity THEN rest
          ELSE << ProfitRowOf(r, cfg, arteMap, prices) >> \o rest

\* the comparator with its operands exchanged: ascending
CompareProfitAscending(a, b) ==
  LET v == NumSub(a.profit, b.profit) IN IF IsNaN(v) THEN 0 ELSE Sign(v)

\* (a, b) => b.profit - a.profit, as Array.prototype.sort reads it: its sign,
\* NaN read as +0
CompareProfit(a, b) ==
  LET v == NumSub(b.profit, a.profit) IN IF IsNaN(v) THEN 0 ELSE Sign(v)

\* x put into a sorted sequence behind every element that does not come
\* after it
RECURSIVE InsertSorted(_, _)
InsertSorted(x, sorted) ==
  IF sorted = <<>> THEN << x >>
  ELSE IF CompareProfit(Head(sorted), x) <= 0
    THEN << Head(sorted) >> \o InsertSorted(x, Tail(sorted))
    ELSE << x >> \o sorted

\* out.sort(comparator): Array.prototype.sort is stable
RECURSIVE SortRows(_, _)
SortRows(rows, n) ==
  IF n = 0 THEN <<>> ELSE InsertSorted(rows[n], SortRows(rows, n - 1))

\* ------------------------------------------------------------ variables
VARIABLES
  pick,     \* SpecPick: the input of one price pick and its output
  rc,       \* SpecRetry: one call of fetchWithRetry / postWithRetry
  memCache, \* Spec: const memCache = new Map<string, PickedPrice>()
  bulk,     \* Spec: per caller, the frame of its fetchPricesBulk call
  removed,  \* Spec: keys deleted by an invalidation and not written since
  inval,    \* SpecInval: one invalidatePriceCache call, before and after
  qcall,    \* SpecQuality: a fetchPricesBulk call given opts.qualities
  val,      \* SpecValue: one call of parseItemId / computeItemValue / computeUsageFee
  scan      \* SpecScan: one scanProfit call

vars == << pick, rc, memCache, bulk, removed, inval, qcall, val, scan >>

bulkVars == << memCache, bulk, removed >>

restVars == << qcall, val, scan >>

PickIdle == [pc |-> "idle", rows |-> <<>>, city |-> NULL, ids |-> <<>>,
             out |-> <<>>, resolved |-> <<>>]

NoResult == [how |-> "none", o |-> NoErr, at |-> 0]

InvalIdle == [pc |-> "idle", before |-> <<>>, hasPredicate |-> FALSE,
              predicate |-> {}, after |-> <<>>]

\* rc.log is the history of settled requests, rc.reqs / rc.sleeps count the
\* fetch() calls and the backoff sleeps of the call
RetryIdle == [pc |-> "idle", fn |-> "-", tries |-> 0, attempt |-> 0,
              lastErr |-> NoErr, aborted |-> FALSE, reqs |-> 0, sleeps |-> 0,
              log |-> <<>>, result |-> NoResult]

Procs == { "p1", "p2" }

\* the frame of a fetchPricesBulk call.  Code state: server, city, itemIds,
\* miss, i, prices, picked, and the inlined fetchWithRetry's attempt and
\* lastErr; signal is opts.signal.aborted; result is how the promise settled.
\* History: refetch (the ids of the call whose keys an invalidation had
\* removed when the call began), isRepeat (the caller's previous call returned,
\* had the same arguments, and nothing was invalidated since it settled),
\* isCleanRepeat (the same, and nothing was invalidated since it began),
\* repeatOf (the picked map that previous call returned), asked (the chunks
\* requested so far), ends (how each chunk's request ended), dirty (an
\* invalidation ran since the call began), dirtyDone (one ran since it settled).
BulkIdle ==
  [pc |-> "idle", server |-> "-", city |-> NULL, itemIds |-> <<>>,
   miss |-> <<>>, i |-> 0, prices |-> <<>>, picked |-> <<>>,
   attempt |-> 0, lastErr |-> NoErr, signal |-> FALSE,
   result |-> NoResult,
   refetch |-> {}, isRepeat |-> FALSE, isCleanRepeat |-> FALSE, repeatOf |-> <<>>,
   asked |-> <<>>, ends |-> <<>>, dirty |-> FALSE, dirtyDone |-> FALSE]

BulkInit ==
  /\ memCache = << >>
  /\ bulk = [ p \in Procs |-> BulkIdle ]
  /\ removed = {}

\* the frame of a fetchPricesBulk call made with opts.qualities.  Code state:
\* server, city, itemIds, picked; rows is the body of the response when the
\* call had a miss.  History: qualities (the opts.qualities the caller
\* passed), hits (the ids served from the cache), storedBy (per cache key, the
\* arguments of the call that wrote the entry).
QCallIdle ==
  [pc |-> "idle", server |-> "-", city |-> NULL, qualities |-> {}, itemIds |-> <<>>,
   miss |-> <<>>, rows |-> <<>>, hits |-> {}, picked |-> <<>>, storedBy |-> <<>>]

\* one call of a valuation function: its name, its arguments, its result
NoArgs == [tier |-> 0, enchant |-> 0, numItems |-> 0, arteType |-> "-",
           isShapeshifter |-> FALSE, itemValue |-> [num |-> 0, den |-> 1],
           stationFeePer100 |-> [num |-> 0, den |-> 1], itemId |-> <<>>]

ValIdle == [pc |-> "idle", fn |-> "-", args |-> NoArgs, out |-> NULL]

NoCfg == [stationFeePer100 |-> [num |-> 0, den |-> 1], saleTaxPct |-> [num |-> 0, den |-> 1],
          listingPct |-> [num |-> 0, den |-> 1], returnRatePct |-> [num |-> 0, den |-> 1],
          tomePrice |-> [num |-> 0, den |-> 1]]

\* one call of scanProfit: its arguments, the arte map it loaded, the ids it
\* asks for, what fetchPricesBulk resolved to, the rows pushed and returned
ScanIdle == [pc |-> "idle", recipes |-> <<>>, cfg |-> NoCfg, arteMap |-> <<>>,
             allIds |-> <<>>, calls |-> <<>>, prices |-> [shape |-> "-", map |-> <<>>],
             rows |-> <<>>, out |-> <<>>]

RestInit == qcall = QCallIdle /\ val = ValIdle /\ scan = ScanIdle

\* --------------------------------------------------------------- SpecPick
\* The response body is built row by row, then the pick is applied to it.
PickInputs ==
  { [pc |-> "input", rows |-> <<>>, city |-> c, ids |-> << 1, 2 >>,
     out |-> <<>>, resolved |-> <<>>] : c \in Cities }

InitPick == pick \in PickInputs /\ rc = RetryIdle /\ BulkInit /\ inval = InvalIdle /\ RestInit

AddRow ==
  /\ pick.pc = "input"
  /\ Len(pick.rows) < MaxRows
  /\ \E r \in PriceRow(PickItems) :
       pick' = [pick EXCEPT !.rows = Append(pick.rows, r)]
  /\ UNCHANGED << rc, bulkVars, inval, restVars >>

ApplyPick ==
  /\ pick.pc = "input"
  /\ pick' = [pick EXCEPT !.pc = "done",
                !.out = pickPreferredOrMinOther(pick.rows, pick.city),
                !.resolved = ResolveChunk(pick.ids, pick.rows, pick.city)]
  /\ UNCHANGED << rc, bulkVars, inval, restVars >>

NextPick == AddRow \/ ApplyPick

SpecPick == InitPick /\ [][NextPick]_vars

\* -------------------------------------------------------------- SpecRetry
InitRetry == pick = PickIdle /\ rc = RetryIdle /\ BulkInit /\ inval = InvalIdle /\ RestInit

\* entering the function: attempt = 0, lastErr = null, then the loop test;
\* a "fetch" or "final" position has its fetch() already issued
Enter(r) ==
  LET to == LoopTest(r.attempt, r.tries, r.lastErr)
  IN IF to = "fetch" THEN [r EXCEPT !.pc = "fetch", !.reqs = r.reqs + 1]
     ELSE IF to = "final" THEN [r EXCEPT !.pc = "final", !.reqs = r.reqs + 1]
     ELSE [r EXCEPT !.pc = "done",
             !.result = [how |-> "thrown", o |-> r.lastErr, at |-> r.lastErr.at]]

RetryCall ==
  /\ rc.pc = "idle"
  /\ \E fn \in { "fetchWithRetry", "postWithRetry" }, tries \in 0..MaxTries :
       rc' = Enter([rc EXCEPT !.fn = fn, !.tries = tries])
  /\ UNCHANGED << pick, bulkVars, inval, restVars >>

\* the awaited fetch() of the loop settles
RetrySettle ==
  /\ rc.pc = "fetch"
  /\ \E o \in Outcomes(rc.aborted) :
       LET p == RetryPass(rc.fn, o, rc.reqs, rc.lastErr)
           r == [rc EXCEPT !.log = Append(rc.log, o), !.lastErr = p.lastErr]
       IN rc' = IF p.next = "return"
                THEN [r EXCEPT !.pc = "done",
                        !.result = [how |-> "returned", o |-> o, at |-> rc.reqs]]
                ELSE IF p.next = "throw"
                THEN [r EXCEPT !.pc = "done",
                        !.result = [how |-> "thrown", o |-> p.lastErr, at |-> rc.reqs]]
                ELSE [r EXCEPT !.pc = "sleep", !.sleeps = rc.sleeps + 1]
  /\ UNCHANGED << pick, bulkVars, inval, restVars >>

\* the backoff sleep ends: attempt++, then the loop test
RetryWake ==
  /\ rc.pc = "sleep"
  /\ rc' = Enter([rc EXCEPT !.attempt = rc.attempt + 1])
  /\ UNCHANGED << pick, bulkVars, inval, restVars >>

\* `return fetch(...)` after the loop: whatever it settles with is the result
RetryFinalSettle ==
  /\ rc.pc = "final"
  /\ \E o \in Outcomes(rc.aborted) :
       rc' = [rc EXCEPT !.pc = "done", !.log = Append(rc.log, o),
                !.result = IF o.kind = "response"
                           THEN [how |-> "returned", o |-> o, at |-> rc.reqs]
                           ELSE [how |-> "thrown",
                                 o |-> [kind |-> "error", status |-> 0,
                                        name |-> o.name, at |-> rc.reqs],
                                 at |-> rc.reqs]]
  /\ UNCHANGED << pick, bulkVars, inval, restVars >>

\* the caller aborts the signal it passed (postWithRetry takes no signal)
RetryAbort ==
  /\ rc.fn = "fetchWithRetry"
  /\ rc.pc \in { "fetch", "sleep", "final" }
  /\ ~rc.aborted
  /\ rc' = [rc EXCEPT !.aborted = TRUE]
  /\ UNCHANGED << pick, bulkVars, inval, restVars >>

NextRetry == RetryCall \/ RetrySettle \/ RetryWake \/ RetryFinalSettle \/ RetryAbort

SpecRetry == InitRetry /\ [][NextRetry]_vars

\* every fetch() the client awaits settles, with a response or an error, and
\* every backoff timer fires
SpecRetryFair ==
  /\ SpecRetry
  /\ WF_vars(RetrySettle) /\ WF_vars(RetryWake) /\ WF_vars(RetryFinalSettle)

\* -------------------------------------------------------------- SpecInval
\* invalidatePriceCache on any cache content, with any predicate
Keys == { CacheKey(sv, c, id) : sv \in SERVER_BASE, c \in RespCities, id \in Items }

InvalInputs ==
  { [pc |-> "input", before |-> m, hasPredicate |-> h, predicate |-> P, after |-> <<>>] :
      m \in UNION { [D -> { NoPick, [price |-> 1, cityUsed |-> CITY_ORDER[1]] }] : D \in SUBSET Keys },
      h \in BOOLEAN, P \in SUBSET Keys }

InitInval == pick = PickIdle /\ rc = RetryIdle /\ BulkInit /\ inval \in InvalInputs /\ RestInit

ApplyInvalidate ==
  /\ inval.pc = "input"
  /\ inval' = [inval EXCEPT !.pc = "done",
                 !.after = invalidatePriceCache(inval.before, inval.hasPredicate,
                                                inval.predicate)]
  /\ UNCHANGED << pick, rc, bulkVars, restVars >>

NextInval == ApplyInvalidate

SpecInval == InitInval /\ [][NextInval]_vars

\* ------------------------------------------------------------------ Spec
\* fetchPricesBulk over the shared cache.  Each action is one run of the
\* event loop: from one await to the next.
Init == pick = PickIdle /\ rc = RetryIdle /\ BulkInit /\ inval = InvalIdle /\ RestInit

\* the rows of a 2xx JSON body for the requested ids: per id no row or one row
RECURSIVE BodyRows(_)
BodyRows(ids) ==
  IF ids = <<>> THEN { <<>> }
  ELSE LET rest == BodyRows(Tail(ids))
       IN rest \cup
          { << [item_id |-> Head(ids), city |-> c, sell_price_min |-> v] >> \o t :
              c \in RespCities, v \in RespPrices, t \in rest }

\* a 2xx body: JSON rows, or text that res.json() rejects
Bodies(ids) ==
  { [json |-> TRUE, rows |-> rows] : rows \in BodyRows(ids) }
    \cup { [json |-> FALSE, rows |-> <<>>] }

\* the itemIds arguments tried: the lists over Items of at most MaxIds
\* entries whose first occurrences ascend (the cache is keyed per id, so a
\* permutation of the ids only permutes the chunks), without a duplicate or
\* with the first id once more at the end (unique() drops it wherever it is)
IdLists ==
  { s \in SeqsUpTo(Items, MaxIds) :
      /\ \A k \in 1..(Len(unique(s)) - 1) : unique(s)[k] < unique(s)[k + 1]
      /\ Len(s) <= Len(unique(s)) + 1
      /\ Len(s) > Len(unique(s)) => s[Len(s)] = s[1] }

Chunks(b) == chunk(b.miss, CHUNK_SIZE)

\* the promise of fetchPricesBulk rejects with the error named name
Reject(b, name, end) ==
  [b EXCEPT !.pc = "idle", !.ends = Append(b.ends, end),
     !.attempt = 0, !.lastErr = NoErr,
     !.result = [how |-> "thrown", o |-> Err(name), at |-> 0]]

\* fetchMultiCity -> fetchWithRetry(url, 4, signal) up to its next await
LoopEnter(b) ==
  LET to == LoopTest(b.attempt, TRIES, b.lastErr)
  IN IF to = "fetch" THEN [b EXCEPT !.pc = "fetch"]
     ELSE IF to = "final" THEN [b EXCEPT !.pc = "final"]
     ELSE Reject(b, b.lastErr.name, "error")

\* the request issued for the chunks counted from the last one
IssueChunkFromLast(b) ==
  LoopEnter([b EXCEPT !.attempt = 0, !.lastErr = NoErr,
               !.asked = Append(b.asked, Chunks(b)[Len(Chunks(b)) - b.i])])

\* `const rows = await fetchMultiCity(base, ids, cities, opts?.signal)` for chunks[i]
IssueChunk(b) ==
  LoopEnter([b EXCEPT !.attempt = 0, !.lastErr = NoErr,
               !.asked = Append(b.asked, Chunks(b)[b.i + 1])])

\* the cache write skipping results without a price
RECURSIVE SetAllPositive(_, _, _, _, _)
SetAllPositive(cache, ids, res, server, city) ==
  IF ids = <<>> THEN cache
  ELSE SetAllPositive(IF res[Head(ids)].price > 0
                      THEN MapSet(cache, CacheKey(server, city, Head(ids)), res[Head(ids)])
                      ELSE cache,
                      Tail(ids), res, server, city)

\* the cache write that keeps the entry a key already has
RECURSIVE SetAllIfAbsent(_, _, _, _, _)
SetAllIfAbsent(cache, ids, res, server, city) ==
  IF ids = <<>> THEN cache
  ELSE SetAllIfAbsent(IF CacheKey(server, city, Head(ids)) \in DOMAIN cache
                      THEN cache
                      ELSE MapSet(cache, CacheKey(server, city, Head(ids)), res[Head(ids)]),
                      Tail(ids), res, server, city)

\* for (const id of ids) { ...; memCache.set(`${server}|${city}|${id}`, p) }
RECURSIVE SetAll(_, _, _, _, _)
SetAll(cache, ids, res, server, city) ==
  IF ids = <<>> THEN cache
  ELSE SetAll(MapSet(cache, CacheKey(server, city, Head(ids)), res[Head(ids)]),
              Tail(ids), res, server, city)

\* lines 370-384: pick, write results and cache, then the courtesy delay or return
ChunkDone(p, b, rows, end) ==
  LET ids == Chunks(b)[b.i + 1]
      res == ResolveChunk(ids, rows, b.city)
      merged(old, f) ==
        [ id \in DOMAIN old \cup Range(ids) |-> IF id \in Range(ids) THEN f[id] ELSE old[id] ]
      b1 == [b EXCEPT !.picked = merged(b.picked, res),
               !.prices = merged(b.prices, [ id \in Range(ids) |-> res[id].price ]),
               !.attempt = 0, !.lastErr = NoErr,
               !.ends = Append(b.ends, end)]
  IN /\ memCache' = SetAll(memCache, ids, res, b.server, b.city)
     /\ removed' = removed \ { CacheKey(b.server, b.city, id) : id \in Range(ids) }
     /\ bulk' = [bulk EXCEPT ![p] =
                   IF b.i < Len(Chunks(b)) - 1
                   THEN [b1 EXCEPT !.pc = "delay"]
                   ELSE [b1 EXCEPT !.pc = "idle",
                           !.result = [how |-> "returned", o |-> NoErr, at |-> 0]]]

\* a 2xx response reached fetchMultiCity: `return (await res.json()) as PriceRow[]`
GotBody(p, b) ==
  \E body \in Bodies(Chunks(b)[b.i + 1]) :
    IF body.json THEN ChunkDone(p, b, body.rows, "rows")
    ELSE /\ bulk' = [bulk EXCEPT ![p] = Reject(b, "SyntaxError", "badjson")]
         /\ UNCHANGED << memCache, removed >>

StartBulk(p) ==
  /\ bulk[p].pc = "idle"
  /\ \E server \in SERVER_BASE, city \in CallCities, itemIds \in IdLists :
       LET uniqIds == unique(itemIds)
           key(id) == CacheKey(server, city, id)
           hits == { id \in Range(uniqIds) : CacheHit(memCache, key(id)) }
           miss == SelectSeq(uniqIds, LAMBDA id : ~CacheHit(memCache, key(id)))
           old == bulk[p]
           again == /\ old.result.how = "returned"
                    /\ ~old.dirtyDone
                    /\ old.server = server /\ old.city = city /\ old.itemIds = itemIds
           b == [BulkIdle EXCEPT
                   !.server = server, !.city = city, !.itemIds = itemIds,
                   !.miss = miss,
                   !.picked = [ id \in hits |-> memCache[key(id)] ],
                   !.prices = [ id \in hits |-> memCache[key(id)].price ],
                   !.refetch = { id \in Range(uniqIds) : key(id) \in removed },
                   !.isRepeat = again,
                   !.isCleanRepeat = again /\ ~old.dirty,
                   !.repeatOf = IF again THEN old.picked ELSE << >>]
       IN bulk' = [bulk EXCEPT ![p] =
                     IF miss = <<>>
                     THEN [b EXCEPT !.result = [how |-> "returned", o |-> NoErr, at |-> 0]]
                     ELSE IssueChunk(b)]
  /\ UNCHANGED << pick, rc, inval, memCache, removed, restVars >>

\* the awaited fetch() of the retry loop settles
BulkSettle(p) ==
  /\ bulk[p].pc = "fetch"
  /\ \E o \in BulkOutcomes(bulk[p].signal) :
       LET b == bulk[p]
           pass == fetchWithRetryPass(o, 0, b.lastErr)
           b1 == [b EXCEPT !.lastErr = pass.lastErr]
       IN IF pass.next = "return"
          THEN IF ResOk(o) THEN GotBody(p, b1)
               ELSE ChunkDone(p, b1, <<>>, "status")
          ELSE /\ bulk' = [bulk EXCEPT ![p] =
                             IF pass.next = "throw"
                             THEN Reject(b1, pass.lastErr.name, "abort")
                             ELSE [b1 EXCEPT !.pc = "sleep"]]
               /\ UNCHANGED << memCache, removed >>
  /\ UNCHANGED << pick, rc, inval, restVars >>

\* the backoff sleep ends: attempt++, loop test
BulkWake(p) ==
  /\ bulk[p].pc = "sleep"
  /\ bulk' = [bulk EXCEPT ![p] = LoopEnter([bulk[p] EXCEPT !.attempt = bulk[p].attempt + 1])]
  /\ UNCHANGED << pick, rc, inval, memCache, removed, restVars >>

\* the unretried fetch() after the loop settles
BulkFinalSettle(p) ==
  /\ bulk[p].pc = "final"
  /\ \E o \in BulkOutcomes(bulk[p].signal) :
       LET b == bulk[p]
       IN IF o.kind = "response"
          THEN IF ResOk(o) THEN GotBody(p, b)
               ELSE ChunkDone(p, b, <<>>, "finalStatus")
          ELSE /\ bulk' = [bulk EXCEPT ![p] =
                             Reject(b, o.name,
                                    IF o.name = "AbortError" THEN "abort" ELSE "error")]
               /\ UNCHANGED << memCache, removed >>
  /\ UNCHANGED << pick, rc, inval, restVars >>

\* `await sleep(withJitter(120))` between chunks ends: i++, next chunk
BulkDelayDone(p) ==
  /\ bulk[p].pc = "delay"
  /\ bulk' = [bulk EXCEPT ![p] = IssueChunk([bulk[p] EXCEPT !.i = bulk[p].i + 1])]
  /\ UNCHANGED << pick, rc, inval, memCache, removed, restVars >>

\* the caller aborts the signal it gave to the call
BulkAbort(p) ==
  /\ bulk[p].pc # "idle"
  /\ ~bulk[p].signal
  /\ bulk' = [bulk EXCEPT ![p].signal = TRUE]
  /\ UNCHANGED << pick, rc, inval, memCache, removed, restVars >>

\* invalidatePriceCache(predicate?) runs between any two steps
Invalidate ==
  /\ memCache # << >>
  /\ \E hasPredicate \in BOOLEAN, predicate \in SUBSET DOMAIN memCache :
       /\ (~hasPredicate => predicate = {})
       /\ memCache' = invalidatePriceCache(memCache, hasPredicate, predicate)
  /\ removed' = removed \cup (DOMAIN memCache \ DOMAIN memCache')
  /\ bulk' = [ p \in Procs |->
                IF bulk[p].pc = "idle"
                THEN [bulk[p] EXCEPT !.dirty = TRUE, !.dirtyDone = TRUE]
                ELSE [bulk[p] EXCEPT !.dirty = TRUE] ]
  /\ UNCHANGED << pick, rc, inval, restVars >>

Next ==
  \/ StartBulk("p1")
  \/ BulkSettle("p1")
  \/ BulkWake("p1")
  \/ BulkFinalSettle("p1")
  \/ BulkDelayDone("p1")
  \/ BulkAbort("p1")
  \/ Invalidate

Spec == Init /\ [][Next]_vars

\* -------------------------------------------------------------- SpecRace
\* Two callers of fetchPricesBulk over the shared cache, each making one call
\* for one id; the steps of the calls interleave at the awaits.  No signal is aborted and nothing is
\* invalidated.
RaceStart(p) ==
  /\ bulk[p] = BulkIdle
  /\ StartBulk(p)
  /\ Len(bulk'[p].itemIds) = 1

NextRace ==
  \/ RaceStart("p1")
  \/ RaceStart("p2")
  \/ BulkSettle("p1")
  \/ BulkSettle("p2")
  \/ BulkWake("p1")
  \/ BulkWake("p2")
  \/ BulkFinalSettle("p1")
  \/ BulkFinalSettle("p2")

SpecRace == Init /\ [][NextRace]_vars

\* ------------------------------------------------------------- SpecStale
\* The two callers of SpecRace, with invalidatePriceCache running between
\* any two of their steps, as the component's effect calls it while a scan
\* is in flight.
StaleStart(p) ==
  /\ bulk[p].result = NoResult
  /\ StartBulk(p)
  /\ Len(bulk'[p].itemIds) = 1

NextStale ==
  \/ StaleStart("p1")
  \/ StaleStart("p2")
  \/ BulkSettle("p1")
  \/ BulkSettle("p2")
  \/ BulkWake("p1")
  \/ BulkWake("p2")
  \/ BulkFinalSettle("p1")
  \/ BulkFinalSettle("p2")
  \/ Invalidate

SpecStale == Init /\ [][NextStale]_vars

\* ------------------------------------------------------------ SpecQuality
\* fetchPricesBulk called with opts = { signal, qualities } as the component
\* calls it, for one id and a request that succeeds: the partition into hits
\* and misses, the body of the response row by row, then pick and cache write.
InitQuality ==
  /\ pick = PickIdle /\ rc = RetryIdle /\ BulkInit /\ inval = InvalIdle
  /\ qcall = QCallIdle /\ val = ValIdle /\ scan = ScanIdle

\* the opts.qualities values tried
QualitySets == { { 1 }, { 1, 2 } }

\* PriceRow.quality is optional: NoQuality stands for a row without the field
NoQuality == 0

QualRows ==
  [item_id : { 1 }, city : RespCities, sell_price_min : RespPrices,
   quality : { NoQuality, 1, 2 }]

\* lines 342-360: the cache partition of the call
QualBegin ==
  /\ qcall.pc \in { "idle", "done" }
  /\ \E server \in SERVER_BASE, city \in Cities, qualities \in QualitySets :
       LET itemIds == << 1 >>
           uniqIds == unique(itemIds)
           key(id) == CacheKey(server, city, id)
           hits == { id \in Range(uniqIds) : CacheHit(memCache, key(id)) }
           miss == SelectSeq(uniqIds, LAMBDA id : ~CacheHit(memCache, key(id)))
       IN qcall' = [qcall EXCEPT
                      !.pc = IF miss = <<>> THEN "done" ELSE "fetch",
                      !.server = server, !.city = city, !.qualities = qualities,
                      !.itemIds = itemIds, !.miss = miss, !.rows = <<>>,
                      !.hits = hits,
                      !.picked = [ id \in hits |-> memCache[key(id)] ]]
  /\ UNCHANGED << pick, rc, inval, bulkVars, val, scan >>

\* one more row of the 2xx body that fetchMultiCity returns
QualAddRow ==
  /\ qcall.pc = "fetch"
  /\ Len(qcall.rows) < MaxQualRows
  /\ \E r \in QualRows : qcall' = [qcall EXCEPT !.rows = Append(qcall.rows, r)]
  /\ UNCHANGED << pick, rc, inval, bulkVars, val, scan >>

\* lines 369-384: the rows go to pickPreferredOrMinOther as they came
QualRespond ==
  /\ qcall.pc = "fetch"
  /\ LET res == ResolveChunk(qcall.miss, qcall.rows, qcall.city)
         keys == { CacheKey(qcall.server, qcall.city, id) : id \in Range(qcall.miss) }
     IN /\ memCache' = SetAll(memCache, qcall.miss, res, qcall.server, qcall.city)
        /\ qcall' = [qcall EXCEPT
                       !.pc = "done",
                       !.picked = [ id \in qcall.hits \cup Range(qcall.miss) |->
                                      IF id \in Range(qcall.miss) THEN res[id]
                                      ELSE qcall.picked[id] ],
                       !.storedBy = [ k \in DOMAIN qcall.storedBy \cup keys |->
                                        IF k \in keys
                                        THEN [server |-> qcall.server, city |-> qcall.city,
                                              qualities |-> qcall.qualities, id |-> k[3]]
                                        ELSE qcall.storedBy[k] ]]
  /\ UNCHANGED << pick, rc, inval, bulk, removed, val, scan >>

NextQuality == QualBegin \/ QualAddRow \/ QualRespond

SpecQuality == InitQuality /\ [][NextQuality]_vars

\* -------------------------------------------------------------- SpecValue
\* The valuation functions of price_push.ts, each called on inputs of its
\* domain.
InitValue ==
  /\ pick = PickIdle /\ rc = RetryIdle /\ BulkInit /\ inval = InvalIdle
  /\ qcall = QCallIdle /\ val = ValIdle /\ scan = ScanIdle

\* the tiers and enchants parseItemId yields, the numItems classifyMeta yields
Tiers == 4..8

Enchants == 0..4

NumItemsVals == { 0, 8, 16, 24, 32 }

\* item values (1000, a T4 item, a shapeshifter staff, a fraction) and fees
ItemValueInputs == { Num(0), Num(1), Num(384), Num(1000), Frac(8192, 11), Frac(1, 3) }

StationFees == { Num(0), Num(1), Num(100), Num(200), Frac(5, 2) }

CallItemValue ==
  /\ val.pc = "idle"
  /\ \E tier \in Tiers, enchant \in Enchants, numItems \in NumItemsVals,
        arteType \in ArteTypes, isShapeshifter \in BOOLEAN :
       val' = [pc |-> "done", fn |-> "computeItemValue",
               args |-> [NoArgs EXCEPT !.tier = tier, !.enchant = enchant,
                           !.numItems = numItems, !.arteType = arteType,
                           !.isShapeshifter = isShapeshifter],
               out |-> computeItemValue(tier, enchant, numItems, arteType, isShapeshifter)]
  /\ UNCHANGED << pick, rc, inval, bulkVars, qcall, scan >>

CallUsageFee ==
  /\ val.pc = "idle"
  /\ \E itemValue \in ItemValueInputs, stationFeePer100 \in StationFees :
       val' = [pc |-> "done", fn |-> "computeUsageFee",
               args |-> [NoArgs EXCEPT !.itemValue = itemValue,
                           !.stationFeePer100 = stationFeePer100],
               out |-> computeUsageFee(itemValue, stationFeePer100)]
  /\ UNCHANGED << pick, rc, inval, bulkVars, qcall, scan >>

\* item ids put together from a head, a tier digit, a slot, a core and a
\* suffix, well-formed and malformed ones
IdHeads == { << "T" >>, << "t" >>, << "A" >> }

IdTiers == { << "4" >>, << "8" >>, << "3" >>, << "9" >> }

IdSeps == { << "_" >>, << >> }

IdSlots == { << >>, << "A" >>, << "2", "H" >>, << "a", "-" >> }

IdCores == { << >>, << "A" >>, << "a" >>, << "A", "_", "A" >>, << "A", "\n" >> }

IdSuffixes == { << >>, << "@", "0" >>, << "@", "4" >>, << "@", "5" >>, << "@" >>,
                << "@", "1", "2" >> }

ItemIdInputs ==
  { h \o t \o s1 \o sl \o s2 \o c \o x :
      h \in IdHeads, t \in IdTiers, s1 \in IdSeps, sl \in IdSlots, s2 \in IdSeps,
      c \in IdCores, x \in IdSuffixes }

CallParseItemId ==
  /\ val.pc = "idle"
  /\ \E itemId \in ItemIdInputs :
       val' = [pc |-> "done", fn |-> "parseItemId",
               args |-> [NoArgs EXCEPT !.itemId = itemId],
               out |-> parseItemId(itemId)]
  /\ UNCHANGED << pick, rc, inval, bulkVars, qcall, scan >>

\* cores of at most MaxCoreWords words and slots, in upper, lower and mixed case
MetaWords == { "BAG", "bag", "Satchel", "INSIGHT", "insight", "CAPE", "cape",
               "Shapeshifter", "BOW", "crossbow", "SWORD" }

MetaSlots == { "OFF", "off", "2H", "2h", "MAIN", "Main", "ARMOR", "BAG", "CAPE" }

CallClassifyMeta ==
  /\ val.pc = "idle"
  /\ \E core \in SeqsUpTo(MetaWords, MaxCoreWords), slot \in MetaSlots :
       val' = [pc |-> "done", fn |-> "classifyMeta",
               args |-> [core |-> core, slot |-> slot],
               out |-> classifyMeta(core, slot)]
  /\ UNCHANGED << pick, rc, inval, bulkVars, qcall, scan >>

\* the caller has the result; the next call starts from scratch
ValReturn ==
  /\ val.pc = "done"
  /\ val' = ValIdle
  /\ UNCHANGED << pick, rc, inval, bulkVars, qcall, scan >>

NextValue ==
  CallItemValue \/ CallUsageFee \/ CallParseItemId \/ CallClassifyMeta \/ ValReturn

SpecValue == InitValue /\ [][NextValue]_vars

\* -------------------------------------------------------------- SpecChunk
\* The ids one fetchPricesBulk call asks the network for: any list of ids,
\* any of them cached, any chunk size.
PartIds == 1..MaxPartIds

PartCaches ==
  { [ k \in { CacheKey("West", CITY_ORDER[1], id) : id \in cached } |-> NoPick ] :
      cached \in SUBSET PartIds }

PartitionCall ==
  /\ val.pc = "idle"
  /\ \E itemIds \in SeqsUpTo(PartIds, MaxPartLen), cache \in PartCaches, n \in 1..MaxPartChunk :
       val' = [pc |-> "done", fn |-> "chunks",
               args |-> [itemIds |-> itemIds, cache |-> cache, n |-> n],
               out |-> MissChunks(cache, "West", CITY_ORDER[1], itemIds, n)]
  /\ UNCHANGED << pick, rc, inval, bulkVars, qcall, scan >>

NextChunk == PartitionCall \/ ValReturn

SpecChunk == InitValue /\ [][NextChunk]_vars

\* ------------------------------------------------------------ SpecControl
\* The component: its server, city and quality controls, the effect that
\* invalidates the cache when one of them changes, and the scan that follows.
\* Both versions of the component in AlbionCraftingCalculator.tsx are run.
\* inval holds the state of the component; a key's item id is a string here.
CtlVersions == { "v2025-11-02", "v4" }

CtlServers == { "West", "East" }

CtlQualities == { << 1, 2, 3 >>, << 1, 2 >> }

CtlIds == << << "T", "4", "_", "A" >> >>

\* arr.join(",")
RECURSIVE Join(_)
Join(arr) ==
  IF arr = <<>> THEN <<>>
  ELSE IF Len(arr) = 1 THEN << DigitChar(arr[1]) >>
  ELSE << DigitChar(arr[1]), "," >> \o Join(Tail(arr))

\* String.prototype.startsWith
IsPrefix(pre, str) == Len(pre) <= Len(str) /\ SubSeq(str, 1, Len(pre)) = pre

\* the predicate the effect hands to invalidatePriceCache, on the key
\* `${server}|${city}|${id}`: k.startsWith(`${server}|${city}|`) in
\* v2025-11-02, k.startsWith(`${server}|${city}|q=${qKey(allowedQualities)}`) in v4
EffectPredicate(version, server, city, qualities, k) ==
  /\ k[1] = server
  /\ k[2] = city
  /\ IsPrefix(IF version = "v4" THEN << "q", "=" >> \o Join(qualities) ELSE <<>>, k[3])

\* history: stale (the keys of the selected server and city that were in
\* the cache when the selection last changed), fresh (no scan has run since
\* that change), served (the stale keys the first scan after the change took
\* from the cache)
CtlInit ==
  /\ pick = PickIdle /\ rc = RetryIdle /\ BulkInit /\ RestInit
  /\ \E version \in CtlVersions :
       inval = [version |-> version, server |-> "West", city |-> CITY_ORDER[1],
                qualities |-> << 1, 2, 3 >>, stale |-> {}, fresh |-> FALSE, served |-> {}]

\* setServer / setCity / setQualities, the render, then the effect
CtlChange ==
  /\ \E server \in CtlServers, city \in Cities, qualities \in CtlQualities :
       /\ << server, city, qualities >> # << inval.server, inval.city, inval.qualities >>
       /\ memCache' = invalidatePriceCache(memCache, TRUE,
                        { k \in DOMAIN memCache :
                            EffectPredicate(inval.version, server, city, qualities, k) })
       /\ inval' = [inval EXCEPT !.server = server, !.city = city, !.qualities = qualities,
                                 !.stale = { k \in DOMAIN memCache : k[1] = server /\ k[2] = city },
                                 !.fresh = TRUE, !.served = {}]
  /\ UNCHANGED << pick, rc, bulk, removed, restVars >>

\* handleScan: fetchPricesBulk(server, city, allIds, ...) with every request
\* answered; the ids in the cache are served from it, the others stored
CtlScan ==
  /\ LET key(id) == CacheKey(inval.server, inval.city, id)
         hits == { key(id) : id \in { x \in Range(CtlIds) : CacheHit(memCache, key(x)) } }
         value == [price |-> 1, cityUsed |-> inval.city]
     IN /\ memCache' = [ k \in DOMAIN memCache \cup { key(id) : id \in Range(CtlIds) } |->
                           IF k \in DOMAIN memCache THEN memCache[k] ELSE value ]
        /\ inval' = [inval EXCEPT !.fresh = FALSE,
                                  !.served = IF inval.fresh THEN hits \cap inval.stale ELSE {}]
  /\ UNCHANGED << pick, rc, bulk, removed, restVars >>

NextControl == CtlChange \/ CtlScan

SpecControl == CtlInit /\ [][NextControl]_vars

\* --------------------------------------------------------------- SpecScan
\* scanProfit on lists of recipes, with the prices of any few of the ids it
\* asks for unresolved, or with fetchPricesBulk rejecting.
InitScan ==
  /\ pick = PickIdle /\ rc = RetryIdle /\ BulkInit /\ inval = InvalIdle
  /\ qcall = QCallIdle /\ val = ValIdle /\ scan = ScanIdle

ResourceId(name, tier) == Id(name, tier, "-", <<>>)

Mat(itemId, quantity, kind) == [itemId |-> itemId, quantity |-> quantity, kind |-> kind]

RecipeOf(tier, slot, core, materials) ==
  [itemId |-> Id("ITEM", tier, slot, core), tier |-> tier, enchant |-> 0, slot |-> slot,
   core |-> core, materials |-> materials]

\* a sword without artefact, two artefact weapons, a city cape
RecipeSet ==
  { RecipeOf(4, "MAIN", << "SWORD" >>,
      << Mat(ResourceId("METALBAR", 4), 16, "A"), Mat(ResourceId("LEATHER", 4), 8, "B") >>),
    RecipeOf(4, "2H", << "KEEPER" >>,
      << Mat(ResourceId("METALBAR", 4), 16, "A"), Mat(ResourceId("LEATHER", 4), 8, "B"),
         Mat(Id("ARTEFACT", 4, "2H", << "KEEPER" >>), 1, "Artefact") >>),
    RecipeOf(5, "2H", << "CROSSBOW" >>,
      << Mat(ResourceId("METALBAR", 5), 16, "A"), Mat(ResourceId("LEATHER", 5), 8, "B"),
         Mat(Id("ARTEFACT", 5, "2H", << "CROSSBOW" >>), 1, "Artefact") >>),
    RecipeOf(4, "CAPE", << "ARMOR", "CAPE", "MARTLOCK" >>,
      << Mat(ResourceId("CLOTH", 4), 4, "A"), Mat(ResourceId("LEATHER", 4), 4, "B") >>) }

\* lists of recipes, each recipe at most once
RecipeLists ==
  { l \in SeqsUpTo(RecipeSet, MaxRecipes) :
      \A i, j \in DOMAIN l : i # j => l[i] # l[j] }

\* the arte map file missing, or naming the two artefact weapons
ArteMaps ==
  { << >>,
    [ c \in { << "KEEPER" >>, << "CROSSBOW" >> } |->
        IF c = << "KEEPER" >> THEN "Rune" ELSE "Standard" ] }

Configs ==
  { NoCfg,
    [stationFeePer100 |-> Num(800), saleTaxPct |-> Num(4), listingPct |-> Num(1),
     returnRatePct |-> Num(50), tomePrice |-> Num(1000)] }

\* what the market asks for an id when its price resolves
MarketPrice(id) ==
  CASE id.k = "ITEM" -> Num(1000 * (id.tier - 3))
    [] id.k = "ARTEFACT" -> Num(500)
    [] id.k = "CRYSTALLIZED_SPIRIT" -> Num(300)
    [] id.k = "METALBAR" -> Num(10 * (id.tier - 3))
    [] OTHER -> Num(20)

ReturnShapes == { "PriceMap", "PricesAndPicked" }

\* recipes.map(r => r.itemId)
productIds(recipes) == [ i \in DOMAIN recipes |-> recipes[i].itemId ]

\* recipes.flatMap(r => r.materials.map(m => m.itemId))
RECURSIVE matIds(_)
matIds(recipes) ==
  IF recipes = <<>> THEN <<>>
  ELSE [ j \in DOMAIN Head(recipes).materials |-> Head(recipes).materials[j].itemId ]
         \o matIds(Tail(recipes))

\* Object.values(CRYSTALIZED_FOR)
altIds ==
  << CRYSTALIZED_FOR["Rune"], CRYSTALIZED_FOR["Soul"], CRYSTALIZED_FOR["Relic"],
     CRYSTALIZED_FOR["Avalonian"] >>

\* the three lists one after the other, duplicates kept
AllIdsConcatenated(recipes) == productIds(recipes) \o matIds(recipes) \o altIds

\* const allIds = [...new Set([...productIds, ...matIds, ...altIds])]
AllIds(recipes) == unique(productIds(recipes) \o matIds(recipes) \o altIds)

\* loadArteMap has resolved and fetchPricesBulk is called for allIds
ScanBegin ==
  /\ scan.pc = "idle"
  /\ \E recipes \in RecipeLists, cfg \in Configs, arteMap \in ArteMaps :
       scan' = [ScanIdle EXCEPT !.pc = "fetch", !.recipes = recipes, !.cfg = cfg,
                                !.arteMap = arteMap, !.allIds = AllIds(recipes),
                                !.calls = << AllIds(recipes) >>]
  /\ UNCHANGED << pick, rc, inval, bulkVars, qcall, val >>

\* fetchPricesBulk resolves, every id it was asked for has an entry, 0 when
\* no price was found; the loop and the sort run and scanProfit returns
ScanFetchReturns ==
  /\ scan.pc = "fetch"
  /\ \E shape \in ReturnShapes, unresolved \in SUBSET Range(scan.allIds) :
       /\ Cardinality(unresolved) <= MaxUnresolved
       \* the loop reads no price out of { prices, picked }: one such result will do
       /\ shape = "PricesAndPicked" => unresolved = {}
       /\ LET prices == [shape |-> shape,
                         map |-> [ id \in Range(scan.allIds) |->
                                     IF id \in unresolved THEN Num(0) ELSE MarketPrice(id) ]]
              rows == ScanLoop(scan.recipes, scan.cfg, scan.arteMap, prices, 1)
          IN scan' = [scan EXCEPT !.pc = "done", !.prices = prices, !.rows = rows,
                                  !.out = SortRows(rows, Len(rows))]
  /\ UNCHANGED << pick, rc, inval, bulkVars, qcall, val >>

\* fetchPricesBulk rejects with the error fetchWithRetry threw; scanProfit has
\* no try around the await
ScanFetchThrows ==
  /\ scan.pc = "fetch"
  /\ scan' = [scan EXCEPT !.pc = "rejected"]
  /\ UNCHANGED << pick, rc, inval, bulkVars, qcall, val >>

\* the caller has the rows or the error
ScanReturn ==
  /\ scan.pc \in { "done", "rejected" }
  /\ scan' = ScanIdle
  /\ UNCHANGED << pick, rc, inval, bulkVars, qcall, val >>

NextScan == ScanBegin \/ ScanFetchReturns \/ ScanFetchThrows \/ ScanReturn

SpecScan == InitScan /\ [][NextScan]_vars

\* ------------------------------------------------------------- SpecArte
\* loadArteMap as scanProfit calls it, from two scans whose steps interleave
\* at the awaits.  qcall holds the module variable _arteMap, the number of
\* calls that went to the network (loads) and, per scan, the position of its
\* call and the mapping it got.
ArteFile == [ c \in { << "KEEPER" >> } |-> "Rune" ]

\* _arteMap and the result of a call: null (set FALSE), or a mapping
NoMap == [set |-> FALSE, map |-> << >>]

TheMap(map) == [set |-> TRUE, map |-> map]

ArteCallIdle == [pc |-> "idle", got |-> NoMap, n |-> 0]

ArteInit ==
  /\ pick = PickIdle /\ rc = RetryIdle /\ BulkInit /\ inval = InvalIdle
  /\ val = ValIdle /\ scan = ScanIdle
  /\ qcall = [arteMap |-> NoMap, loads |-> 0, call |-> [ p \in Procs |-> ArteCallIdle ]]

\* the call of p moves to position pc
ArteAt(p, pc) == [qcall EXCEPT !.call[p].pc = pc]

\* the call of p returns map, storing it in _arteMap first when stored
ArteReturn(p, map, stored) ==
  [qcall EXCEPT !.call[p].pc = "idle", !.call[p].got = TheMap(map),
                !.arteMap = IF stored THEN TheMap(map) ELSE qcall.arteMap]

\* scanProfit: `const arteMap = await loadArteMap()`, up to the first await
\* of loadArteMap: `if (_arteMap) return _arteMap;` (an empty object is truthy)
LoadArteMap(p) ==
  /\ qcall.call[p].pc = "idle"
  /\ qcall.call[p].n < MaxScans
  /\ LET q == [qcall EXCEPT !.call[p].n = qcall.call[p].n + 1]
     IN qcall' = IF q.arteMap.set
                   THEN [q EXCEPT !.call[p].got = q.arteMap]
                   ELSE [q EXCEPT !.call[p].pc = "json", !.loads = q.loads + 1]
  /\ UNCHANGED << pick, rc, inval, bulkVars, val, scan >>

\* fetch(".../arte_type_by_core_v3.json") settles: a 2xx response, another
\* response, or an error that the catch swallows
JsonSettles(p) ==
  /\ qcall.call[p].pc = "json"
  /\ \E ok \in BOOLEAN : qcall' = ArteAt(p, IF ok THEN "jsonBody" ELSE "csv")
  /\ UNCHANGED << pick, rc, inval, bulkVars, val, scan >>

\* `_arteMap = await r.json(); return _arteMap` or r.json() rejects
JsonBody(p) ==
  /\ qcall.call[p].pc = "jsonBody"
  /\ \E ok \in BOOLEAN :
       qcall' = IF ok THEN ArteReturn(p, ArteFile, TRUE) ELSE ArteAt(p, "csv")
  /\ UNCHANGED << pick, rc, inval, bulkVars, val, scan >>

\* fetch(".../arte_type_by_core_v3.csv") settles; otherwise `_arteMap = {}`
CsvSettles(p) ==
  /\ qcall.call[p].pc = "csv"
  /\ \E ok \in BOOLEAN :
       qcall' = IF ok THEN ArteAt(p, "csvText") ELSE ArteReturn(p, << >>, TRUE)
  /\ UNCHANGED << pick, rc, inval, bulkVars, val, scan >>

\* `const txt = await r.text()`, the lines parsed, `_arteMap = map`; or
\* r.text() rejects and `_arteMap = {}`
CsvText(p) ==
  /\ qcall.call[p].pc = "csvText"
  /\ \E ok \in BOOLEAN :
       qcall' = ArteReturn(p, IF ok THEN ArteFile ELSE << >>, TRUE)
  /\ UNCHANGED << pick, rc, inval, bulkVars, val, scan >>

NextArte ==
  \/ LoadArteMap("p1")
  \/ LoadArteMap("p2")
  \/ JsonSettles("p1")
  \/ JsonSettles("p2")
  \/ JsonBody("p1")
  \/ JsonBody("p2")
  \/ CsvSettles("p1")
  \/ CsvSettles("p2")
  \/ CsvText("p1")
  \/ CsvText("p2")

SpecArte == ArteInit /\ [][NextArte]_vars

\* ------------------------------------------------------------- SpecHook
\* useProfitScan: every change of recipes or cfg runs the cleanup of the
\* previous effect and a new effect, which starts a scan; the scans settle in
\* any order.  pick holds the hook: its state (rows, picked, loading, error)
\* and the scans started, each with the `alive` of its effect.  Values are
\* named by the number of the scan they come from, 0 being the initial state.
NoScanYet == 0

\* the effect: `let alive = true`, setLoading(true), setError(null), scanProfit(...)
RunEffect(h) ==
  [h EXCEPT !.loading = TRUE, !.error = NoScanYet,
            !.scans = Append(h.scans, [alive |-> TRUE, pc |-> "pending"])]

\* the cleanup of the latest effect: `alive = false`
Cleanup(h) ==
  [h EXCEPT !.scans = [ k \in DOMAIN h.scans |->
                          IF k = Len(h.scans) THEN [h.scans[k] EXCEPT !.alive = FALSE]
                          ELSE h.scans[k] ]]

\* `alive` read with no cleanup ever having cleared it
aliveNeverCleared(h, k) == TRUE

\* `alive` as the continuation of scan k reads it
alive(h, k) == h.scans[k].alive

\* the hook is mounted and its first effect has run
HookInit ==
  /\ rc = RetryIdle /\ BulkInit /\ inval = InvalIdle /\ RestInit
  /\ pick = RunEffect([rows |-> NoScanYet, picked |-> NoScanYet, loading |-> FALSE,
                       error |-> NoScanYet, scans |-> << >>])

\* recipes or cfg change: render, cleanup of the previous effect, new effect
InputsChange ==
  /\ Len(pick.scans) < MaxEffects
  /\ pick' = RunEffect(Cleanup(pick))
  /\ UNCHANGED << rc, bulkVars, inval, restVars >>

\* scanProfit of scan k resolves: `if (!alive) return; setRows; setPicked`,
\* then the finally block
ScanResolves(k) ==
  /\ k \in DOMAIN pick.scans
  /\ pick.scans[k].pc = "pending"
  /\ LET h == [pick EXCEPT !.scans[k].pc = "resolved"]
     IN pick' = IF alive(pick, k)
                  THEN [h EXCEPT !.rows = k, !.picked = k, !.loading = FALSE]
                  ELSE h
  /\ UNCHANGED << rc, bulkVars, inval, restVars >>

\* scanProfit of scan k rejects: `if (alive) setError(...)`, then the
\* finally block
ScanRejects(k) ==
  /\ k \in DOMAIN pick.scans
  /\ pick.scans[k].pc = "pending"
  /\ LET h == [pick EXCEPT !.scans[k].pc = "rejected"]
     IN pick' = IF alive(pick, k)
                  THEN [h EXCEPT !.error = k, !.loading = FALSE]
                  ELSE h
  /\ UNCHANGED << rc, bulkVars, inval, restVars >>

NextHook ==
  \/ InputsChange
  \/ \E k \in 1..MaxEffects : ScanResolves(k)
  \/ \E k \in 1..MaxEffects : ScanRejects(k)

SpecHook == HookInit /\ [][NextHook]_vars

\* ------------------------------------------------------------ SpecDerived
\* The table of the component: handleScan computes a row per recipe, the
\* derived rows follow from the rows and the return rate on every render.
\* Both versions of the component are run.  scan holds the component's state.
\* const CRYSTALLIZED_FOR of the component
CRYSTALLIZED_FOR ==
  [ a \in { "Rune", "Soul", "Relic", "Avalonian" } |->
      CASE a = "Rune" -> Id("RUNE", 0, "-", <<>>)
        [] a = "Soul" -> Id("SOUL", 0, "-", <<>>)
        [] a = "Relic" -> Id("RELIC", 0, "-", <<>>)
        [] a = "Avalonian" -> Id("AVALONIAN_ENERGY", 0, "-", <<>>) ]

\* prices[id] ?? dflt
PriceAt(prices, id, dflt) == IF id \in DOMAIN prices THEN prices[id] ELSE dflt

NumLt(x, y) == NumLe(x, y) /\ ~NumLe(y, x)

\* what one material adds to materialCost in handleScan
MaterialAdds(version, m, arteType, prices) ==
  LET hasKey == arteType \in DOMAIN CRYSTALLIZED_FOR
  IN IF m.kind = "resource"
       THEN NumMul(PriceAt(prices, m.itemId, Num(0)), Num(m.quantity))
     ELSE IF version = "v2025-11-02"
       THEN LET artePrice == PriceAt(prices, m.itemId, Num(0))
                crystalPrice == IF hasKey THEN PriceAt(prices, CRYSTALLIZED_FOR[arteType], Num(0))
                                ELSE Num(0)
            IN IF /\ hasKey
                  /\ NumLt(Num(0), crystalPrice)
                  /\ (NumLe(artePrice, Num(0)) \/ NumLt(crystalPrice, artePrice))
                 THEN MathMax0(crystalPrice)
                 ELSE MathMax0(artePrice)
     ELSE IF m.kind = "artefact"
       THEN LET artePrice == PriceAt(prices, m.itemId, Infinity)
                crystalPrice == IF hasKey
                                THEN PriceAt(prices, CRYSTALLIZED_FOR[arteType], Infinity)
                                ELSE Infinity
            IN IF NumLt(crystalPrice, artePrice) /\ crystalPrice # Infinity
                 THEN crystalPrice
                 ELSE IF artePrice = Infinity THEN Num(0) ELSE artePrice
     ELSE Num(0)

\* let materialCost = 0; for (const m of recipe.materials) { ... }
RECURSIVE MaterialCostLoop(_, _, _, _, _)
MaterialCostLoop(version, materials, arteType, prices, i) ==
  IF i > Len(materials) THEN Num(0)
  ELSE NumAdd(MaterialAdds(version, materials[i], arteType, prices),
              MaterialCostLoop(version, materials, arteType, prices, i + 1))

\* const derived = useMemo(() => rows.map(...), [rows, returnRate, ...]):
\* the after-return material cost, the net revenue and the net profit of
\* each row (usageFee is 0 in these rows and none of them is a bag)
derived(rows, returnRate, saleTaxPct, listingPct) ==
  [ i \in DOMAIN rows |->
      LET materialCostAfterReturn ==
            MathMax0(MathRound(NumMul(rows[i].materialCost,
                                      NumSub(Num(1), NumMul(Num(returnRate), Frac(1, 100))))))
          sales == NumMul(NumMul(saleTaxPct, Frac(1, 100)), rows[i].productPrice)
          listing == NumMul(NumMul(listingPct, Frac(1, 100)), rows[i].productPrice)
          netRevenue == NumSub(NumSub(rows[i].productPrice, sales), listing)
          totalCost == materialCostAfterReturn
      IN [id |-> rows[i].id, materialCost |-> rows[i].materialCost,
          productPrice |-> rows[i].productPrice,
          materialCostAfterReturn |-> materialCostAfterReturn,
          netRevenue |-> netRevenue,
          netProfit |-> MathRoundSigned(NumSub(netRevenue, totalCost))] ]

\* the recipes of the component: a sword of resources, a rune-artefact staff
CompRecipes ==
  << [itemId |-> Id("ITEM", 4, "MAIN", << "SWORD" >>), arteType |-> "Standard",
      materials |-> << Mat(ResourceId("METALBAR", 4), 16, "resource"),
                       Mat(ResourceId("LEATHER", 4), 8, "resource") >>],
     [itemId |-> Id("ITEM", 4, "2H", << "KEEPER" >>), arteType |-> "Rune",
      materials |-> << Mat(ResourceId("METALBAR", 4), 16, "resource"),
                       Mat(ResourceId("LEATHER", 4), 8, "resource"),
                       Mat(Id("ARTEFACT", 4, "2H", << "KEEPER" >>), 1, "artefact") >>] >>

CompIds ==
  { CompRecipes[i].itemId : i \in DOMAIN CompRecipes }
    \cup { CompRecipes[i].materials[j].itemId : i \in DOMAIN CompRecipes, j \in 1..2 }
    \cup { Id("ARTEFACT", 4, "2H", << "KEEPER" >>), CRYSTALLIZED_FOR["Rune"] }

CompMarket(id) ==
  CASE id.k = "ARTEFACT" -> Num(500)
    [] id.k = "RUNE" -> Num(300)
    [] id.k = "METALBAR" -> Num(10)
    [] id.k = "ITEM" -> Num(1000)
    [] OTHER -> Num(20)

ReturnRates == { 0, 24, 50, 100 }

\* sale tax and listing fee percentages, also such that sum to more than 100
FeePcts == { << Frac(13, 2), Frac(3, 2) >>, << Num(0), Num(0) >>, << Num(60), Num(50) >> }

\* useState defaults: no rows, returnRate 24, saleTaxPct 6.5, listingPct 1.5
DerivedInit ==
  /\ pick = PickIdle /\ rc = RetryIdle /\ BulkInit /\ inval = InvalIdle
  /\ qcall = QCallIdle /\ val = ValIdle
  /\ \E version \in CtlVersions :
       scan = [version |-> version, prices |-> << >>, rows |-> << >>, returnRate |-> 24,
               saleTaxPct |-> Frac(13, 2), listingPct |-> Frac(3, 2), derived |-> << >>]

\* handleScan with fetchPricesBulk resolving, any of the prices unresolved;
\* setRows, then the render
CompScan ==
  /\ \E unresolved \in SUBSET CompIds :
       LET prices == [ id \in CompIds |-> IF id \in unresolved THEN Num(0) ELSE CompMarket(id) ]
           rows == [ i \in DOMAIN CompRecipes |->
                       [id |-> CompRecipes[i].itemId,
                        productPrice |-> PriceAt(prices, CompRecipes[i].itemId, Num(0)),
                        materialCost |->
                          MaterialCostLoop(scan.version, CompRecipes[i].materials,
                                           CompRecipes[i].arteType, prices, 1)] ]
       IN scan' = [scan EXCEPT !.prices = prices, !.rows = rows,
                               !.derived = derived(rows, scan.returnRate, scan.saleTaxPct,
                                                   scan.listingPct)]
  /\ UNCHANGED << pick, rc, inval, bulkVars, qcall, val >>

\* the return-rate field changes: setReturnRate, then the render
SetReturnRate ==
  /\ \E returnRate \in ReturnRates \ { scan.returnRate } :
       scan' = [scan EXCEPT !.returnRate = returnRate,
                            !.derived = derived(scan.rows, returnRate, scan.saleTaxPct,
                                                scan.listingPct)]
  /\ UNCHANGED << pick, rc, inval, bulkVars, qcall, val >>

\* the sale-tax and listing-fee fields change: setSaleTaxPct, setListingPct,
\* then the render
SetFees ==
  /\ \E f \in FeePcts \ { << scan.saleTaxPct, scan.listingPct >> } :
       scan' = [scan EXCEPT !.saleTaxPct = f[1], !.listingPct = f[2],
                            !.derived = derived(scan.rows, scan.returnRate, f[1], f[2])]
  /\ UNCHANGED << pick, rc, inval, bulkVars, qcall, val >>

NextDerived == CompScan \/ SetReturnRate \/ SetFees

SpecDerived == DerivedInit /\ [][NextDerived]_vars

\* ================================================================ claims
RowsOf(rows, id) == SelectSeq(rows, LAMBDA r : r.item_id = id)

Positive(v) == v # NoPrice /\ v > 0

\* C1: whenever some row of an item has city = preferredCity and a price
\* > 0, the picked result of that item has cityUsed = preferredCity and the
\* price of a positive preferred-city row, whatever the other rows are.
C1_PreferredCityWins ==
  pick.pc = "done" =>
    \A id \in DOMAIN pick.out :
      LET arr == RowsOf(pick.rows, id)
          prefPos == { k \in 1..Len(arr) :
                         arr[k].city = pick.city /\ Positive(arr[k].sell_price_min) }
      IN prefPos # {} =>
           /\ pick.out[id].cityUsed = pick.city
           /\ \E k \in prefPos : pick.out[id].price = arr[k].sell_price_min

\* C2: an item all of whose rows have a price <= 0 or no price is picked as
\* {price: 0, cityUsed: null}, and a requested id without any row resolves to
\* {price: 0, cityUsed: null} as well.
C2_NoPositiveRowGivesNoPick ==
  pick.pc = "done" =>
    \A id \in Range(pick.ids) :
      LET arr == RowsOf(pick.rows, id)
      IN (\A k \in 1..Len(arr) : ~Positive(arr[k].sell_price_min)) =>
           /\ pick.resolved[id] = [price |-> 0, cityUsed |-> NULL]
           /\ (arr # <<>> => pick.out[id] = [price |-> 0, cityUsed |-> NULL])
           /\ (arr = <<>> => id \notin DOMAIN pick.out)

C2_Witness ==
  /\ pick.pc = "done"
  /\ Len(pick.rows) = MaxRows
  /\ \A k \in 1..Len(pick.rows) : pick.rows[k].item_id = 1
  /\ \E k \in 1..Len(pick.rows) : pick.rows[k].sell_price_min = 0
  /\ \E k \in 1..Len(pick.rows) : pick.rows[k].sell_price_min = NoPrice
  /\ \A k \in 1..Len(pick.rows) : ~Positive(pick.rows[k].sell_price_min)
  /\ pick.resolved[1] = NoPick /\ pick.resolved[2] = NoPick

WellFormedPick(v) == v.price >= 0 /\ ((v.price = 0) <=> (v.cityUsed = NULL))

\* C3: every PickedPrice in the cache and in the result of a bulk call has
\* price >= 0 and price = 0 exactly when cityUsed = null.
C3_ZeroPriceIffNullCity ==
  /\ \A k \in DOMAIN memCache : WellFormedPick(memCache[k])
  /\ \A p \in Procs :
       \A id \in DOMAIN bulk[p].picked :
         /\ WellFormedPick(bulk[p].picked[id])
         /\ bulk[p].prices[id] = bulk[p].picked[id].price

C3_Witness ==
  /\ \E k \in DOMAIN memCache : memCache[k].price > 0 /\ memCache[k].cityUsed = CITY_ORDER[2]
  /\ \E k \in DOMAIN memCache : memCache[k] = NoPick
  /\ bulk["p1"].result.how = "returned"
  /\ \E k \in 1..Len(bulk["p1"].ends) : bulk["p1"].ends[k] = "finalStatus"

AllAsked(b) == UNION { Range(b.asked[k]) : k \in 1..Len(b.asked) }

RepeatServedFromCache(b) ==
  /\ b.pc = "idle"
  /\ b.result.how = "returned"
  /\ b.asked = <<>>
  /\ \A id \in DOMAIN b.repeatOf :
       /\ id \in DOMAIN b.picked
       /\ b.picked[id] = b.repeatOf[id]
       /\ b.prices[id] = b.repeatOf[id].price

Settled(b) == b.pc = "idle" /\ b.result.how # "none"

\* C5: in a call whose misses span several chunks, when the request of one
\* chunk fails after the retries are exhausted (a transport error thrown by
\* the retry client, or a final non-2xx response) and
\* nothing was cancelled, the call still requests every chunk, returns
\* normally, and maps every id of the failed chunk to {price: 0, cityUsed: null}.
C5_ChunkFailureIsolated ==
  \A p \in Procs :
    LET b == bulk[p]
        failed == { k \in 1..Len(b.ends) : b.ends[k] \in { "error", "finalStatus" } }
    IN (/\ Settled(b)
        /\ Len(Chunks(b)) >= 2
        /\ failed # {}
        /\ \A k \in 1..Len(b.ends) : b.ends[k] \notin { "abort", "badjson" }) =>
         /\ b.result.how = "returned"
         /\ Len(b.asked) = Len(Chunks(b))
         /\ \A k \in failed : \A id \in Range(Chunks(b)[k]) :
              id \in DOMAIN b.picked /\ b.picked[id] = NoPick

\* C6: an abort error caught by the retry client ends the bulk call at once:
\* no backoff sleep or further attempt follows it (no frame in flight holds an
\* AbortError as lastErr), the call rejects with the AbortError, no later
\* chunk is requested, and the ids of the aborted and the later chunks get no
\* result and no cache entry from the call.
C6_AbortPropagates ==
  \A p \in Procs :
    LET b == bulk[p]
        n == Len(b.ends)
    IN /\ b.lastErr.name # "AbortError"
       /\ (b.signal /\ b.pc = "idle") =>
            /\ b.result.how = "thrown"
            /\ (b.result.o.name = "AbortError" <=> b.ends[n] = "abort")
       /\ (n > 0 /\ b.ends[n] = "abort") =>
            /\ b.pc = "idle"
            /\ b.result = [how |-> "thrown", o |-> Err("AbortError"), at |-> 0]
            /\ Len(b.asked) = n
            /\ \A k \in n..Len(Chunks(b)) : \A id \in Range(Chunks(b)[k]) :
                 /\ id \notin DOMAIN b.picked
                 /\ CacheKey(b.server, b.city, id) \notin DOMAIN memCache

C6_Witness ==
  LET b == bulk["p1"]
  IN /\ b.signal /\ b.pc = "idle"
     /\ b.result.o.name = "AbortError"
     /\ Len(Chunks(b)) = 2
     /\ b.ends = << "rows", "abort" >>
     /\ memCache # << >>

RetriedKind(o) == o.kind = "error" \/ o.status \in { 429, 502, 503, 504 }

\* C7: a request is followed by another one only after a thrown error or a
\* response with status 429, 502, 503 or 504; a 2xx response and any other
\* status end the call at once: that response is returned, no request and no
\* backoff sleep follow it.
C7_RetryOnlyOnRetryable ==
  LET n == Len(rc.log)
  IN /\ \A k \in 1..n : k < rc.reqs => RetriedKind(rc.log[k])
     /\ rc.pc = "sleep" => (n > 0 /\ RetriedKind(rc.log[n]))
     /\ \A k \in 1..n :
          ~RetriedKind(rc.log[k]) =>
            /\ k = n
            /\ rc.pc = "done"
            /\ rc.result = [how |-> "returned", o |-> rc.log[k], at |-> k]
            /\ rc.reqs = n
            /\ rc.sleeps = n - 1

C7_Witness ==
  /\ rc.pc = "done"
  /\ rc.fn = "postWithRetry"
  /\ Len(rc.log) = 3
  /\ rc.log[1].kind = "error"
  /\ rc.log[2].status = 502
  /\ rc.log[3].status = 500
  /\ rc.result.how = "returned"

SetMax(S) == CHOOSE x \in S : \A y \in S : y <= x

\* C8: once `tries` attempts have failed, the call throws the error of the
\* last attempt that threw, without a further request, if any attempt threw;
\* when all of them failed by status, it makes exactly one more request and
\* returns that response, or throws that error, without a retry.
C8_ExhaustionOutcome ==
  LET n == Len(rc.log)
      t == rc.tries
      exhausted == n >= t /\ \A k \in 1..t : RetriedKind(rc.log[k])
      errs == { k \in 1..t : rc.log[k].kind = "error" }
  IN (exhausted /\ rc.pc \in { "final", "done" }) =>
       IF errs # {}
       THEN /\ rc.pc = "done"
            /\ rc.result.how = "thrown"
            /\ rc.result.o.name = rc.log[SetMax(errs)].name
            /\ rc.result.o.at = SetMax(errs)
            /\ rc.reqs = t /\ n = t
       ELSE /\ rc.reqs = t + 1
            /\ rc.sleeps = t
            /\ \/ rc.pc = "final" /\ n = t
               \/ /\ rc.pc = "done" /\ n = t + 1
                  /\ rc.result.at = t + 1
                  /\ IF rc.log[n].kind = "response"
                     THEN rc.result.how = "returned" /\ rc.result.o = rc.log[n]
                     ELSE rc.result.how = "thrown" /\ rc.result.o.name = rc.log[n].name

C8_Witness ==
  /\ rc.pc = "done"
  /\ rc.tries = 3
  /\ Len(rc.log) = 3
  /\ rc.log[1].kind = "error"
  /\ rc.log[2].kind = "error"
  /\ rc.log[3].kind = "response"
  /\ rc.result.how = "thrown"
  /\ rc.result.o.at = 2

\* C9: with a predicate, invalidatePriceCache removes exactly the entries
\* whose key the predicate accepts and leaves every other entry as it was;
\* without a predicate it removes every entry.
C9_InvalidateFrame ==
  inval.pc = "done" =>
    IF ~inval.hasPredicate
    THEN DOMAIN inval.after = {}
    ELSE /\ DOMAIN inval.after = { k \in DOMAIN inval.before : k \notin inval.predicate }
         /\ \A k \in DOMAIN inval.after : inval.after[k] = inval.before[k]

C9_Witness ==
  /\ inval.pc = "done"
  /\ inval.hasPredicate
  /\ inval.predicate \cap DOMAIN inval.before # {}
  /\ inval.predicate \ DOMAIN inval.before # {}
  /\ \E k \in DOMAIN inval.after : inval.after[k].price > 0
  /\ \E k \in DOMAIN inval.after : inval.after[k] = NoPick

StartStep(p) ==
  /\ bulk[p].pc = "idle"
  /\ bulk'[p] # bulk[p]
  /\ ~bulk'[p].dirty

C10_State ==
  \A p \in Procs :
    LET b == bulk[p]
    IN /\ b.refetch \subseteq Range(b.miss)
       /\ (b.pc # "idle" /\ b.i = 0) => Range(Chunks(b)[1]) \subseteq AllAsked(b)
       /\ b.result.how = "returned" => b.refetch \subseteq AllAsked(b)
       /\ \A id \in Range(b.itemIds) \ Range(b.miss) :
            id \notin AllAsked(b) /\ id \in DOMAIN b.picked

C10_Step ==
  \A p \in Procs :
    StartStep(p) =>
      \A id \in Range(bulk'[p].itemIds) :
        LET k == CacheKey(bulk'[p].server, bulk'[p].city, id)
        IN /\ k \in removed => id \in Range(bulk'[p].miss)
           /\ k \in DOMAIN memCache =>
                /\ id \notin Range(bulk'[p].miss)
                /\ bulk'[p].picked[id] = memCache[k]

\* C10: a call made after an invalidation finds every id whose key was
\* removed among its misses, and requests it (every miss is requested by the
\* time the call returns); an id whose key is in the cache when the call
\* begins is given the cached value and is in no request of the call.
C10_RefetchAfterInvalidate == [] C10_State /\ [][C10_Step]_vars

C10_Witness ==
  LET b == bulk["p1"]
  IN /\ b.result.how = "returned"
     /\ b.refetch # {}
     /\ AllAsked(b) = b.refetch
     /\ Range(b.itemIds) \ Range(b.miss) # {}
     /\ \E id \in b.refetch : b.picked[id].price > 0

\* C11: an id served from the cache is served from an entry that a call
\* with the same endpoint, preferred city, quality set and item id stored.
C11_CacheKeyedByAllArguments ==
  qcall.pc \in { "fetch", "done" } =>
    \A id \in qcall.hits :
      qcall.storedBy[CacheKey(qcall.server, qcall.city, id)] =
        [server |-> qcall.server, city |-> qcall.city,
         qualities |-> qcall.qualities, id |-> id]

AllowedRows(rows, qualities) ==
  SelectSeq(rows, LAMBDA r : r.quality = NoQuality \/ r.quality \in qualities)

\* C12: the price picked for a requested id is the pick over the rows of the
\* response without those whose quality is set and not among the qualities
\* the caller passed; rows without a quality take part.
C12_QualityFilter ==
  qcall.pc = "done" =>
    \A id \in Range(qcall.miss) :
      qcall.picked[id] =
        ResolveChunk(qcall.miss, AllowedRows(qcall.rows, qcall.qualities), qcall.city)[id]

PositiveAt(arr, city) ==
  { k \in 1..Len(arr) : arr[k].city = city /\ Positive(arr[k].sell_price_min) }

PositiveElsewhere(arr, city) ==
  { k \in 1..Len(arr) : arr[k].city # city /\ Positive(arr[k].sell_price_min) }

\* C13: when rows of an item have city = preferredCity and a price > 0, the
\* picked price is the least of the positive prices of the preferred-city
\* rows, in whatever order the rows come.
C13_MinOverPreferredRows ==
  pick.pc = "done" =>
    \A id \in DOMAIN pick.out :
      LET arr == RowsOf(pick.rows, id)
          pref == PositiveAt(arr, pick.city)
      IN pref # {} =>
           /\ pick.out[id].cityUsed = pick.city
           /\ \A k \in pref : pick.out[id].price <= arr[k].sell_price_min
           /\ \E k \in pref : pick.out[id].price = arr[k].sell_price_min

\* C14: when no preferred-city row of an item has a price > 0, the picked
\* price is the least positive price of the rows of the other cities and
\* cityUsed is the city of a row with that price; without any positive price
\* the result is {price: 0, cityUsed: null}.
C14_FallbackMinOrNone ==
  pick.pc = "done" =>
    \A id \in DOMAIN pick.out :
      LET arr == RowsOf(pick.rows, id)
          other == PositiveElsewhere(arr, pick.city)
      IN PositiveAt(arr, pick.city) = {} =>
           IF other = {}
           THEN pick.out[id] = [price |-> 0, cityUsed |-> NULL]
           ELSE /\ \A k \in other : pick.out[id].price <= arr[k].sell_price_min
                /\ \E k \in other : /\ pick.out[id].price = arr[k].sell_price_min
                                    /\ pick.out[id].cityUsed = arr[k].city

C14_Witness ==
  /\ pick.pc = "done"
  /\ pick.city = CITY_ORDER[1]
  /\ pick.rows = << [item_id |-> 1, city |-> CITY_ORDER[1], sell_price_min |-> 0],
                    [item_id |-> 1, city |-> CITY_ORDER[2], sell_price_min |-> 2],
                    [item_id |-> 1, city |-> CITY_ORDER[2], sell_price_min |-> 1] >>
  /\ pick.out[1] = [price |-> 1, cityUsed |-> CITY_ORDER[2]]

ClaimedArteMult(a) ==
  CASE a = "Standard" -> 0 [] a = "Rune" -> 4 [] a = "Soul" -> 12 [] a = "Relic" -> 28
    [] a = "Mist" -> 28 [] a = "Avalonian" -> 60 [] a = "Crystal" -> 60

\* C15: computeItemValue(tier, enchant, numItems, arteType, isShapeshifter)
\* is numItems * (16 * 2^(tier + enchant - 4) + M[arteType] * 2^(tier - 4)),
\* times 16/11 for a shapeshifter, for tier in 4..8, enchant in 0..4 and every
\* arte type; (4, 0, 24, Standard, false) gives 384.
C15_ItemValueFormula ==
  (val.pc = "done" /\ val.fn = "computeItemValue") =>
    LET a == val.args
        whole == a.numItems * (16 * 2^(a.tier + a.enchant - 4)
                                 + ClaimedArteMult(a.arteType) * 2^(a.tier - 4))
    IN /\ a.isShapeshifter => val.out.num * 11 = whole * 16 * val.out.den
       /\ ~a.isShapeshifter => (val.out.den = 1 /\ val.out.num = whole)
       /\ (a.tier = 4 /\ a.enchant = 0 /\ a.numItems = 24 /\ a.arteType = "Standard"
             /\ ~a.isShapeshifter) => val.out = [num |-> 384, den |-> 1]

C15_Witness ==
  /\ val.pc = "done" /\ val.fn = "computeItemValue"
  /\ val.args.tier = 4 /\ val.args.enchant = 0 /\ val.args.numItems = 24
  /\ val.args.arteType = "Standard" /\ ~val.args.isShapeshifter
  /\ val.out = [num |-> 384, den |-> 1]

\* C16: computeUsageFee(itemValue, stationFeePer100) is
\* 9 * itemValue * stationFeePer100 / 8000, unrounded; (1000, 100) gives 112.5.
C16_UsageFeeFormula ==
  (val.pc = "done" /\ val.fn = "computeUsageFee") =>
    LET v == val.args.itemValue
        f == val.args.stationFeePer100
    IN /\ val.out.den > 0
       /\ val.out.num * (8000 * v.den * f.den) = 9 * v.num * f.num * val.out.den
       /\ (v = [num |-> 1000, den |-> 1] /\ f = [num |-> 100, den |-> 1]) =>
            val.out = [num |-> 225, den |-> 2]

C16_Witness ==
  /\ val.pc = "done" /\ val.fn = "computeUsageFee"
  /\ val.args.itemValue = [num |-> 1000, den |-> 1]
  /\ val.args.stationFeePer100 = [num |-> 100, den |-> 1]
  /\ val.out = [num |-> 225, den |-> 2]

\* the position of the last "@" of s, 0 if there is none
LastAt(s) ==
  LET at == { i \in 1..Len(s) : s[i] = "@" }
  IN IF at = {} THEN 0 ELSE CHOOSE i \in at : \A k \in at : k <= i

\* the id's enchant suffix, from its last "@", is not "@" and one digit 0..4
BadEnchantSuffix(s) ==
  /\ LastAt(s) > 0
  /\ ~(LastAt(s) = Len(s) - 1 /\ s[Len(s)] \in EnchantDigits)

\* the text between the second underscore and the enchant suffix is empty
MissingCore(s) ==
  LET us == { i \in 4..Len(s) : s[i] = "_" }
      u == IF us = {} THEN Len(s) ELSE CHOOSE i \in us : \A k \in us : i <= k
      e == IF LastAt(s) > u THEN LastAt(s) ELSE Len(s) + 1
  IN e = u + 1

\* C18: parseItemId returns null for an id with a tier outside 4..8, without
\* a slot or a core, or with an enchant suffix that is not one digit 0..4;
\* what it returns otherwise has tier in 4..8, a non-empty slot and core and
\* enchant in 0..4, 0 when the id has no suffix.
C18_ParseItemIdNullOrRecord ==
  (val.pc = "done" /\ val.fn = "parseItemId") =>
    LET s == toUpperCase(val.args.itemId)
        out == val.out
    IN /\ (Len(s) < 2 \/ s[2] \notin TierDigits) => ~out.matched
       /\ BadEnchantSuffix(s) => ~out.matched
       /\ MissingCore(s) => ~out.matched
       /\ out.matched =>
            /\ out.tier \in 4..8
            /\ out.slot # <<>>
            /\ out.core # <<>>
            /\ out.enchant \in 0..4
            /\ LastAt(s) = 0 => out.enchant = 0

\* the recipes of the scan that are not city capes, in order
RECURSIVE Kept(_, _)
Kept(recipes, i) ==
  IF i > Len(recipes) THEN <<>>
  ELSE IF classifyMeta(recipes[i].core, recipes[i].slot).isCapeCity
    THEN Kept(recipes, i + 1)
    ELSE << recipes[i] >> \o Kept(recipes, i + 1)

Count(seq, x) == Cardinality({ i \in DOMAIN seq : seq[i] = x })

\* the artefact-kind material of r resolved, its crystallized substitute
\* resolved and strictly cheaper
SubstituteCheaper(r) ==
  LET t == arteTypeOf(r.core, scan.arteMap)
      m == scan.prices.map
  IN /\ t \in DOMAIN CRYSTALIZED_FOR
     /\ \E j \in DOMAIN r.materials :
          /\ r.materials[j].kind = "Artefact"
          /\ m[r.materials[j].itemId].num > 0
          /\ m[CRYSTALIZED_FOR[t]].num > 0
          /\ FracLess(m[CRYSTALIZED_FOR[t]], m[r.materials[j].itemId])

\* C17: when a recipe's artefact material and its crystallized substitute
\* are both resolved and the substitute is strictly cheaper (500 against
\* 300), the row's material cost counts the substitute's price for the
\* artefact and the row is flagged as substituted.
C17_ArtefactSubstitution ==
  scan.pc = "done" =>
    LET kept == Kept(scan.recipes, 1)
    IN \A i \in DOMAIN kept :
         SubstituteCheaper(kept[i]) =>
           LET r == kept[i]
               row == scan.rows[i]
               sub == scan.prices.map[CRYSTALIZED_FOR[arteTypeOf(r.core, scan.arteMap)]]
               ab == abCostOf(r.materials, scan.prices, 1)
           IN /\ row.materialCost = NumAdd(ab, sub)
              /\ DOMAIN row \cap { "substituted", "arteSub" } # {}

\* C19: whichever ids stay unresolved, scanProfit returns, with exactly one
\* row for every recipe that is not a city cape, and a row whose product
\* price is unresolved has productPrice 0 and profitMargin 0.
C19_ScanDegradesGracefully ==
  scan.pc \in { "done", "rejected" } =>
    /\ scan.pc = "done"
    /\ LET kept == Kept(scan.recipes, 1)
       IN /\ Len(scan.out) = Len(kept)
          /\ \A i \in DOMAIN kept :
               Count(scan.out, scan.rows[i]) = Count(scan.rows, scan.rows[i])
          /\ \A i \in DOMAIN kept :
               /\ scan.rows[i].itemId = kept[i].itemId
               /\ scan.prices.map[kept[i].itemId].num = 0 =>
                    /\ scan.rows[i].productPrice = Num(0)
                    /\ scan.rows[i].profitMargin = Num(0)

\* C20: the rows scanProfit returns are in descending order of profit and
\* are a permutation of the rows computed for the recipes not skipped.
C20_RowsSortedByProfit ==
  scan.pc = "done" =>
    /\ \A i \in 1..(Len(scan.out) - 1) :
         NumLe(scan.out[i + 1].profit, scan.out[i].profit)
    /\ Len(scan.out) = Len(scan.rows)
    /\ Len(scan.rows) = Len(Kept(scan.recipes, 1))
    /\ \A i \in DOMAIN scan.rows :
         Count(scan.out, scan.rows[i]) = Count(scan.rows, scan.rows[i])

C20_Witness ==
  /\ scan.pc = "done"
  /\ Len(scan.out) = 2
  /\ scan.out # scan.rows
  /\ scan.out[1].profit.den # 0 /\ scan.out[2].profit.den # 0
  /\ scan.out[1].profit # scan.out[2].profit

\* how a chunk's request ends when it fails: a non-2xx response handed back
\* by fetchWithRetry, at once or after the retries, or the retries exhausted
\* on errors
FailedEnds == { "status", "finalStatus", "error" }

\* C21: after a chunk's request has failed (final non-2xx response or
\* exhausted retries) the cache holds no entry for any id of that chunk, so
\* that the next call asks the network for them again.
C21_NoNegativeCaching ==
  LET b == bulk["p1"]
  IN \A k \in DOMAIN b.ends :
       b.ends[k] \in FailedEnds =>
         \A id \in Range(b.asked[k]) :
           CacheKey(b.server, b.city, id) \notin DOMAIN memCache

\* the caller aborts the signal of p's call in this step, while the call is
\* suspended in a backoff sleep or in the delay between two chunks
AbortedWhileWaiting(p) ==
  /\ bulk[p].pc \in { "sleep", "delay" }
  /\ ~bulk[p].signal
  /\ bulk'[p].signal

\* C22: when the signal is aborted while the call waits in a retry backoff
\* sleep or in the delay between chunks, the call ends with the cancellation
\* there and then: the delay is not completed, no request is started and no
\* cache entry is written.
C22_AbortCutsDelayShort ==
  [][ AbortedWhileWaiting("p1") =>
        /\ bulk'["p1"].pc = "idle"
        /\ bulk'["p1"].result.how = "thrown"
        /\ bulk'["p1"].result.o.name = "AbortError"
        /\ bulk'["p1"].asked = bulk["p1"].asked
        /\ memCache' = memCache ]_vars

\* how a chunk's request ends when its rows (or none) are picked and stored
DoneEnds == { "rows", "status", "finalStatus" }

\* one request at most is in flight, the chunks are asked in order, and a
\* chunk is asked only when every chunk before it has been picked
C23_State ==
  LET b == bulk["p1"]
  IN /\ Len(b.asked) \in { Len(b.ends), Len(b.ends) + 1 }
     /\ (Len(b.asked) = Len(b.ends) + 1) <=> (b.pc \in { "fetch", "sleep", "final" })
     /\ \A k \in DOMAIN b.asked : b.asked[k] = Chunks(b)[k]
     /\ \A k \in 1..(Len(b.asked) - 1) :
          /\ b.ends[k] \in DoneEnds
          /\ Range(b.asked[k]) \subseteq DOMAIN b.picked

\* a step writes to the cache exactly when the chunk in flight is done, and
\* it writes the picks of that chunk
C23_Step ==
  LET b == bulk["p1"]
      c == bulk'["p1"]
      written == { k \in DOMAIN memCache' : k \notin DOMAIN memCache \/ memCache'[k] # memCache[k] }
      done == /\ Len(c.ends) = Len(b.ends) + 1
              /\ c.ends[Len(c.ends)] \in DoneEnds
  IN /\ written # {} => done
     /\ done =>
          /\ c.asked = b.asked
          /\ written = { CacheKey(b.server, b.city, id) : id \in Range(b.asked[Len(c.ends)]) }
          /\ \A id \in Range(b.asked[Len(c.ends)]) :
               memCache'[CacheKey(b.server, b.city, id)] = c.picked[id]

\* C23: within one fetchPricesBulk call at most one request is in flight, the
\* request for chunk i+1 is issued only after the response for chunk i has
\* been picked and written to the cache, and the cache is written in chunk
\* order.
C23_ChunksInSequence == [] C23_State /\ [][C23_Step]_vars

C23_Witness ==
  /\ bulk["p1"].result.how = "returned"
  /\ Len(bulk["p1"].asked) >= 2
  /\ bulk["p1"].ends = << "rows", "rows" >>
  /\ \A id \in Range(bulk["p1"].miss) :
       CacheKey(bulk["p1"].server, bulk["p1"].city, id) \in DOMAIN memCache

\* the chunks one after the other
RECURSIVE Flat(_)
Flat(chunks) ==
  IF Len(chunks) = 0 THEN <<>>
  ELSE Flat(SubSeq(chunks, 1, Len(chunks) - 1)) \o chunks[Len(chunks)]

\* where x occurs first in seq
FirstAt(seq, x) == CHOOSE i \in DOMAIN seq : seq[i] = x /\ \A j \in 1..(i - 1) : seq[j] # x

\* C24: whatever the input list, the ids asked for over the network are the
\* distinct input ids that miss the cache, each in exactly one chunk, in the
\* order of their first occurrence, no chunk longer than the chunk size and
\* only the last one shorter.
C24_DedupAndPartition ==
  (val.pc = "done" /\ val.fn = "chunks") =>
    LET a == val.args
        flat == Flat(val.out)
    IN /\ Range(flat) = { id \in Range(a.itemIds) :
                            CacheKey("West", CITY_ORDER[1], id) \notin DOMAIN a.cache }
       /\ \A i, j \in DOMAIN flat : i # j => flat[i] # flat[j]
       /\ \A i, j \in DOMAIN flat :
            i < j => FirstAt(a.itemIds, flat[i]) < FirstAt(a.itemIds, flat[j])
       /\ \A k \in DOMAIN val.out :
            /\ Len(val.out[k]) <= a.n
            /\ Len(val.out[k]) >= 1
            /\ k < Len(val.out) => Len(val.out[k]) = a.n

C24_Witness ==
  /\ val.pc = "done" /\ val.fn = "chunks"
  /\ Len(val.args.itemIds) > Cardinality(Range(val.args.itemIds))
  /\ Len(val.out) = 2
  /\ Len(val.out[1]) = 2 /\ Len(val.out[2]) = 1

\* C25: after the server, the city or the quality selection has changed, the
\* cache entries of the selected combination are gone, so that the next scan
\* takes none of the values cached before the change.
C25_ControlChangeForcesRefetch ==
  /\ inval.served = {}
  /\ inval.fresh => \A k \in inval.stale : k \notin DOMAIN memCache

\* the call of p is between its cache check and its cache write
InFlight(p) == bulk[p].pc # "idle"

\* this step starts the call of p
Starts(p) == bulk[p].pc = "idle" /\ bulk'[p] # bulk[p]

\* this step ends a request of the call of p with a result that is stored
Stores(p) == Len(bulk'[p].ends) > Len(bulk[p].ends) /\ bulk'[p].ends[Len(bulk'[p].ends)] \in DoneEnds

C26_Step(p, q) ==
  /\ \A id \in Items :
       ( /\ Starts(p)
         /\ InFlight(q)
         /\ bulk'[p].server = bulk[q].server /\ bulk'[p].city = bulk[q].city
         /\ bulk'[p].itemIds = << id >> /\ bulk[q].itemIds = << id >>
         /\ CacheKey(bulk[q].server, bulk[q].city, id) \notin DOMAIN memCache )
       => /\ bulk'[p].miss = << id >>
          /\ bulk'[p].asked = << << id >> >>
          /\ bulk[q].asked = << << id >> >>
  /\ Stores(p) =>
       \A id \in Range(bulk[p].asked[Len(bulk[p].asked)]) :
         LET k == CacheKey(bulk[p].server, bulk[p].city, id)
         IN k \in DOMAIN memCache' /\ memCache'[k] = bulk'[p].picked[id]

\* C26: when a fetchPricesBulk call starts while another call for the same
\* (server, city, id) has not yet stored its result, it misses the cache too
\* and issues its own request for the id; every call that ends a request
\* overwrites the entry of the key, so the cache holds the result of the call
\* that wrote last.
C26_CheckThenInsertNotAtomic == [][ C26_Step("p1", "p2") /\ C26_Step("p2", "p1") ]_vars

\* both calls asked for the same id of the same server and city, resolved it
\* differently, and the cache holds the result of the second
C26_Witness ==
  /\ bulk["p1"].pc = "idle" /\ bulk["p2"].pc = "idle"
  /\ bulk["p1"].result.how = "returned" /\ bulk["p2"].result.how = "returned"
  /\ bulk["p1"].server = bulk["p2"].server /\ bulk["p1"].city = bulk["p2"].city
  /\ bulk["p1"].itemIds = << 1 >> /\ bulk["p2"].itemIds = << 1 >>
  /\ bulk["p1"].asked = << << 1 >> >> /\ bulk["p2"].asked = << << 1 >> >>
  /\ bulk["p1"].picked[1] # bulk["p2"].picked[1]
  /\ bulk["p1"].picked[1].price > 0
  /\ memCache[CacheKey(bulk["p2"].server, bulk["p2"].city, 1)] = bulk["p2"].picked[1]

\* the reference: the overrides in their order, each with the words of the
\* core it looks for and what it sets
RefHas(core, words) ==
  \E i \in 1..Len(core) : UpperWord(core[i]) \in words

RefOverrides(core) ==
  << [hit |-> RefHas(core, { "BAG", "SATCHEL" }), numItems |-> 16, handed |-> "-"],
     [hit |-> core # <<>> /\ UpperWord(core[Len(core)]) = "CAPE", numItems |-> 8, handed |-> "-"],
     [hit |-> \E i \in 1..Len(core) : 1 < i /\ i < Len(core) /\ UpperWord(core[i]) = "CAPE",
      numItems |-> 0, handed |-> "-"],
     [hit |-> RefHas(core, { "SHAPESHIFTER", "BOW", "CROSSBOW" }), numItems |-> 32,
      handed |-> "2H"] >>

RefBaseline(slot) ==
  LET s == UpperWord(slot)
  IN IF s = "OFF" THEN [handed |-> "OFF", numItems |-> 8]
     ELSE IF s = "2H" THEN [handed |-> "2H", numItems |-> 32]
     ELSE IF s = "MAIN" THEN [handed |-> "1H", numItems |-> 24]
     ELSE [handed |-> "OTHER", numItems |-> 24]

\* the value of the last override that matches and sets the field
RefMeta(core, slot) ==
  LET ovs == RefOverrides(core)
      sets(f) == { i \in 1..Len(ovs) : ovs[i].hit /\ (f = "handed" => ovs[i].handed # "-") }
      last(S) == CHOOSE i \in S : \A j \in S : j <= i
  IN [handed |-> IF sets("handed") = {} THEN RefBaseline(slot).handed
                 ELSE ovs[last(sets("handed"))].handed,
      numItems |-> IF sets("numItems") = {} THEN RefBaseline(slot).numItems
                   ELSE ovs[last(sets("numItems"))].numItems,
      requiresTome |-> RefHas(core, { "INSIGHT" })]

\* C27: classifyMeta(core, slot) is the baseline of the slot with the
\* overrides bag (16), general cape (8), city cape (0), shapeshifter or bow
\* (2H, 32) applied in this order, the last matching one winning; requiresTome
\* holds exactly for a core with INSIGHT; the letter case does not matter.
C27_ClassifyMetaReference ==
  (val.pc = "done" /\ val.fn = "classifyMeta") =>
    LET ref == RefMeta(val.args.core, val.args.slot)
    IN /\ val.out.handed = ref.handed
       /\ val.out.numItems = ref.numItems
       /\ val.out.requiresTome = ref.requiresTome

\* a lower-case bag core that is a city cape and ends in cape under OFF:
\* three overrides match and the city cape's 0 stays
C27_Witness ==
  /\ val.pc = "done" /\ val.fn = "classifyMeta"
  /\ val.args.core = << "bag", "cape", "cape" >>
  /\ val.args.slot = "off"
  /\ val.out.numItems = 0
  /\ val.out.handed = "OFF"

\* a price that resolved: a positive number
Resolved(x) == x.den # 0 /\ x.num > 0

HasArtefactMaterial(r) == \E j \in DOMAIN r.materials : r.materials[j].kind = "Artefact"

\* the sum of price * quantity over the resource-kind materials of r, plus
\* the tome when the recipe requires one
ResourceAndTomeCost(r) ==
  NumAdd(abCostOf(r.materials, scan.prices, 1),
         IF classifyMeta(r.core, r.slot).requiresTome THEN scan.cfg.tomePrice ELSE Num(0))

\* the cheaper of the resolved ones of the artefact's price and its
\* substitute's, 0 when neither resolved
ArtefactChoice(r) ==
  LET t == arteTypeOf(r.core, scan.arteMap)
      a == scan.prices.map[Id("ARTEFACT", r.tier, r.slot, r.core)]
      s == IF t \in DOMAIN CRYSTALIZED_FOR THEN scan.prices.map[CRYSTALIZED_FOR[t]] ELSE Num(0)
  IN IF Resolved(a) /\ Resolved(s) THEN (IF NumLe(a, s) THEN a ELSE s)
     ELSE IF Resolved(a) THEN a
     ELSE IF Resolved(s) THEN s
     ELSE Num(0)

\* C28: in the artefact choice an artefact or substitute price that is
\* missing or 0 is never the one chosen while the other one resolved to a
\* positive price, and when neither resolved the artefact material adds 0 to
\* the cost.
C28_UnresolvedNeverChosen ==
  (scan.pc = "done" /\ scan.prices.shape = "PriceMap") =>
    LET kept == Kept(scan.recipes, 1)
    IN \A i \in DOMAIN kept :
         HasArtefactMaterial(kept[i]) =>
           scan.rows[i].materialCost =
             NumAdd(ResourceAndTomeCost(kept[i]), ArtefactChoice(kept[i]))

\* C29: a recipe without an artefact-kind material gets no artefact or
\* substitute cost: its materialCost is the sum of price * quantity over its
\* resource-kind materials plus the tome cost if required.
C29_NoArtefactNoArtefactCost ==
  (scan.pc = "done" /\ scan.prices.shape = "PriceMap") =>
    LET kept == Kept(scan.recipes, 1)
    IN \A i \in DOMAIN kept :
         ~HasArtefactMaterial(kept[i]) =>
           scan.rows[i].materialCost = ResourceAndTomeCost(kept[i])

\* the sum of price * quantity over the resource-kind materials
RECURSIVE ResourceCost(_, _, _)
ResourceCost(materials, prices, i) ==
  IF i > Len(materials) THEN Num(0)
  ELSE NumAdd(IF materials[i].kind = "resource"
                THEN NumMul(prices[materials[i].itemId], Num(materials[i].quantity))
                ELSE Num(0),
              ResourceCost(materials, prices, i + 1))

\* C30: the after-return material cost is resourceCost * (1 - returnRate/100)
\* plus the undiscounted cost of the artefact or its substitute (shown here on
\* the derived rows of the component, rounded as the component rounds; none
\* of its recipes needs a tome).
C30_DiscountOnlyResources ==
  \A i \in DOMAIN scan.derived :
    LET resourceCost == ResourceCost(CompRecipes[i].materials, scan.prices, 1)
        artefactCost == NumSub(scan.rows[i].materialCost, resourceCost)
        rate == NumSub(Num(1), NumMul(Num(scan.returnRate), Frac(1, 100)))
    IN scan.derived[i].materialCostAfterReturn =
         MathMax0(MathRound(NumAdd(NumMul(resourceCost, rate), artefactCost)))

\* C31: the net revenue is max(0, productPrice - productPrice * saleTax% -
\* productPrice * listingFee%), never negative, also when the percentages
\* sum to more than 100 (shown here on the derived rows of the component).
C31_NetRevenueNeverNegative ==
  \A i \in DOMAIN scan.derived :
    LET price == scan.rows[i].productPrice
        raw == NumSub(NumSub(price, NumMul(price, NumMul(scan.saleTaxPct, Frac(1, 100)))),
                      NumMul(price, NumMul(scan.listingPct, Frac(1, 100))))
    IN /\ NumLe(Num(0), scan.derived[i].netRevenue)
       /\ scan.derived[i].netRevenue = MathMax0(raw)

\* C32: for every row, profit = netRevenue - (effectiveMaterialCost +
\* usageFee), and profitMargin = profit / productPrice * 100 when
\* productPrice > 0 and exactly 0 when productPrice <= 0.
C32_ProfitAndMargin ==
  scan.pc = "done" =>
    \A i \in DOMAIN scan.rows :
      LET row == scan.rows[i]
          price == row.productPrice
          pct(x) == NumMul(x, Frac(1, 100))
          netRevenue == MathMax0(NumSub(NumSub(price, NumMul(price, pct(scan.cfg.saleTaxPct))),
                                        NumMul(price, pct(scan.cfg.listingPct))))
      IN /\ ~IsNaN(row.profit)
         /\ row.profit = NumSub(netRevenue, NumAdd(row.effectiveMaterialCost, row.usageFee))
         /\ NumLt(Num(0), price) =>
              row.profitMargin = NumMul(NumDiv(row.profit, price), Num(100))
         /\ NumLe(price, Num(0)) => row.profitMargin = Num(0)

\* two rows with a usage fee: one whose product price did not resolve, with
\* margin 0, and one with a price, a finite profit and a margin
C32_Witness ==
  /\ scan.pc = "done"
  /\ Len(scan.rows) = 2
  /\ \A i \in DOMAIN scan.rows :
       scan.rows[i].usageFee.num > 0 /\ scan.rows[i].profit.den # 0
  /\ \E i \in DOMAIN scan.rows :
       scan.rows[i].productPrice = Num(0) /\ scan.rows[i].profitMargin = Num(0)
  /\ \E i \in DOMAIN scan.rows :
       scan.rows[i].productPrice.num > 0 /\ scan.rows[i].profitMargin.num # 0

\* the ids a scan of the recipes needs
NeededIds(recipes) ==
  { recipes[i].itemId : i \in DOMAIN recipes }
    \cup UNION { { recipes[i].materials[j].itemId : j \in DOMAIN recipes[i].materials } :
                 i \in DOMAIN recipes }
    \cup { CRYSTALIZED_FOR[a] : a \in DOMAIN CRYSTALIZED_FOR }

\* C33: a scan issues exactly one fetchPricesBulk call, and the ids of that
\* call are every recipe's own id, every material id and every crystallized
\* substitute id, each at most once.
C33_OneBulkLookup ==
  scan.pc # "idle" =>
    /\ Len(scan.calls) = 1
    /\ Range(scan.calls[1]) = NeededIds(scan.recipes)
    /\ \A i, j \in DOMAIN scan.calls[1] : i # j => scan.calls[1][i] # scan.calls[1][j]

\* a finished scan of two recipes that share their resources
C33_Witness ==
  /\ scan.pc = "done"
  /\ Len(scan.recipes) = 2
  /\ \E id \in Range(scan.calls[1]) :
       Cardinality({ i \in DOMAIN scan.recipes :
                       \E j \in DOMAIN scan.recipes[i].materials :
                         scan.recipes[i].materials[j].itemId = id }) = 2

\* C34: the output of scanProfit has no row for a recipe classified as a
\* city cape and exactly one row for every other recipe given to it.
C34_CityCapesExcluded ==
  scan.pc = "done" =>
    \A i \in DOMAIN scan.recipes :
      LET r == scan.recipes[i]
          n == Cardinality({ k \in DOMAIN scan.out : scan.out[k].itemId = r.itemId })
      IN IF classifyMeta(r.core, r.slot).isCapeCity THEN n = 0 ELSE n = 1

\* a city cape and another recipe were scanned, in this order
C34_Witness ==
  /\ scan.pc = "done"
  /\ Len(scan.recipes) = 2
  /\ classifyMeta(scan.recipes[1].core, scan.recipes[1].slot).isCapeCity
  /\ Len(scan.out) = 1
  /\ scan.out[1].itemId = scan.recipes[2].itemId

\* C35: over any sequence of scanProfit calls, overlapping ones included,
\* the rarity mapping is fetched at most once, and every scan after the first
\* load uses the same mapping.
C35_ArteMapLoadedOnce ==
  /\ qcall.loads <= 1
  /\ \A p, q \in Procs :
       (qcall.call[p].got.set /\ qcall.call[q].got.set)
         => qcall.call[p].got = qcall.call[q].got

\* the first request of the call of p, issued when the call started, is
\* still awaited, and since then an invalidation has removed the entry of the
\* key of id, which nothing has stored again
RequestOlderThanRemoval(p, id) ==
  /\ bulk[p].pc = "fetch" /\ bulk[p].attempt = 0
  /\ bulk[p].asked = << << id >> >>
  /\ id \notin bulk[p].refetch
  /\ CacheKey(bulk[p].server, bulk[p].city, id) \in removed

\* C36: once invalidatePriceCache has removed the entry of a key, a call whose
\* request was started before the invalidation does not store its result
\* under that key.
C36_NoStaleRepopulation ==
  [][ \A p \in Procs : \A id \in Items :
        (RequestOlderThanRemoval(p, id) /\ bulk'[p] # bulk[p])
          => CacheKey(bulk[p].server, bulk[p].city, id) \notin DOMAIN memCache' ]_vars

\* C38: whatever the responses and transport errors are, the retry client
\* issues at most tries + 1 requests and sleeps at most tries times, and once
\* called it returns a response or throws.
C38_RetryTerminatesBounded ==
  /\ [](rc.reqs <= rc.tries + 1 /\ rc.sleeps <= rc.tries /\ Len(rc.log) <= rc.reqs)
  /\ (rc.pc \in { "fetch", "sleep", "final" }) ~> (rc.pc = "done")

\* tries attempts answered with a retryable status, then the final request
C38_Witness ==
  /\ rc.pc = "done"
  /\ rc.tries = MaxTries
  /\ rc.reqs = rc.tries + 1
  /\ rc.sleeps = rc.tries
  /\ rc.result.how = "returned"

\* scan k settles in this step
Settles(k) ==
  /\ k \in DOMAIN pick.scans
  /\ pick.scans[k].pc = "pending"
  /\ pick'.scans[k].pc # "pending"

C37_Step ==
  \A k \in 1..MaxEffects :
    Settles(k) =>
      IF k < Len(pick.scans)
      THEN /\ pick'.rows = pick.rows /\ pick'.picked = pick.picked
           /\ pick'.error = pick.error /\ pick'.loading = pick.loading
      ELSE /\ pick'.loading = FALSE
           /\ pick'.scans[k].pc = "resolved" =>
                pick'.rows = k /\ pick'.picked = k /\ pick'.error = pick.error
           /\ pick'.scans[k].pc = "rejected" =>
                pick'.error = k /\ pick'.rows = pick.rows /\ pick'.picked = pick.picked

C37_State ==
  /\ pick.loading <=> pick.scans[Len(pick.scans)].pc = "pending"
  /\ pick.error \in { NoScanYet, Len(pick.scans) }

\* C37: the result or error of a superseded scan is never written to rows,
\* picked or error after the change, in whatever order the scans settle; only
\* the scan of the latest inputs sets them, and loading is false once that
\* scan has settled.
C37_SupersededScansNeverWin == [] C37_State /\ [][C37_Step]_vars

\* three scans were started; the second was superseded and resolved before
\* the first rejected; the rows are those of the third
C37_Witness ==
  /\ Len(pick.scans) = 3
  /\ pick.scans[1].pc = "rejected" /\ pick.scans[2].pc = "resolved"
  /\ pick.scans[3].pc = "resolved"
  /\ pick.rows = 3 /\ pick.picked = 3 /\ pick.error = NoScanYet
  /\ ~pick.loading

Finite(x) == x.den # 0

\* C39: every row returned by scanProfit has a finite profit, profitMargin,
\* materialCost and effectiveMaterialCost, whatever the recipe, the arte type
\* and the prices that resolved.
C39_RowsFinite ==
  scan.pc = "done" =>
    \A i \in DOMAIN scan.out :
      /\ Finite(scan.out[i].profit)
      /\ Finite(scan.out[i].profitMargin)
      /\ Finite(scan.out[i].materialCost)
      /\ Finite(scan.out[i].effectiveMaterialCost)

\* the sum of the resolver's price * quantity over the resource materials
RECURSIVE ResolverResourceCost(_, _)
ResolverResourceCost(materials, i) ==
  IF i > Len(materials) THEN Num(0)
  ELSE NumAdd(IF materials[i].kind \in { "A", "B" }
                THEN NumMul(scan.prices.map[materials[i].itemId], Num(materials[i].quantity))
                ELSE Num(0),
              ResolverResourceCost(materials, i + 1))

\* C40: each row's productPrice is the price the bulk resolver picked for the
\* recipe's itemId in the same scan, and each resource material is costed at
\* the resolver's price for its id.
C40_ScannerAgreesWithResolver ==
  scan.pc = "done" =>
    LET kept == Kept(scan.recipes, 1)
    IN \A i \in DOMAIN kept :
         LET r == kept[i]
             arteCost == pickArtefactOrCrystallized(arteTypeOf(r.core, scan.arteMap),
                                                    Id("ARTEFACT", r.tier, r.slot, r.core),
                                                    scan.prices)
             tomeCost == IF classifyMeta(r.core, r.slot).requiresTome
                         THEN scan.cfg.tomePrice ELSE Num(0)
         IN /\ scan.rows[i].productPrice = scan.prices.map[r.itemId]
            /\ scan.rows[i].materialCost =
                 NumAdd(NumAdd(ResolverResourceCost(r.materials, 1), arteCost), tomeCost)

====
